---- MODULE Spec2Model ----
(***************************************************************************)
(* Keyed entity storage of mcp-fleet: EntityStorage on top of the          *)
(* JSONFileBackend, with MemoryData as the entity type (the configuration  *)
(* the memry server runs).  One file "<id>.json" per entity.               *)
(***************************************************************************)
EXTENDS Integers, Sequences, FiniteSets, TLC

(***************************************************************************)
(* Bounds of the model.                                                    *)
(***************************************************************************)
\* number of distinct entity ids (file names) in play
NumIds == 2
\* number of distinct readings of the wall clock
MaxTime == 2
\* largest offset / limit a filter carries
MaxPage == 2
\* largest max_messages a ConversationManager is built with
MaxMessages == 3

IdPool == <<"a", "b", "c", "d">>
Ids == {IdPool[i] : i \in 1..NumIds}

\* datetime.now().isoformat() readings, in increasing (lexicographic) order
TimePool == <<"2024-01-01T09:00:00", "2024-01-02T09:00:00",
              "2024-01-03T09:00:00", "2024-01-04T09:00:00">>
Times == 1..MaxTime

(***************************************************************************)
(* Python values.  Each carries its type, as the validation of an entity   *)
(* and the JSON encoder both dispatch on it.                               *)
(***************************************************************************)
PyStr(s) == [t |-> "str", s |-> s]
PyList(l) == [t |-> "list", l |-> l]
PyInt(n) == [t |-> "int", n |-> n]
PyNone == [t |-> "NoneType"]

\* bool(v) of a Python value: None, "", [] and 0 are falsy
Truthy(v) ==
    CASE v.t = "NoneType" -> FALSE
      [] v.t = "str" -> v.s # ""
      [] v.t = "list" -> v.l # <<>>
      [] v.t = "int" -> v.n # 0

\* get_current_timestamp(): the ISO string of the clock reading
get_current_timestamp(clock) == PyStr(TimePool[clock])

(***************************************************************************)
(* MemoryData: the entity type.  A dict is a function from keys to Python  *)
(* values; an entity is a dict over exactly the declared fields.           *)
(***************************************************************************)
Fields == <<"id", "title", "content", "source", "tags", "created_at", "updated_at">>
FieldSet == {Fields[i] : i \in 1..Len(Fields)}
RequiredFields == {"id", "title", "content", "source"}
StrFields == {"id", "title", "content", "source", "created_at", "updated_at"}

\* does value v fit the declared type of field f (str, or List[str])
FieldTypeOk(f, v) == IF f \in StrFields THEN v.t = "str" ELSE v.t = "list"

\* the default_factory of a field that has one
FieldDefault(f, clock) ==
    IF f = "tags" THEN PyList(<<>>) ELSE get_current_timestamp(clock)

\* MemoryData(**data): validation and construction.  Unknown keys are
\* ignored, missing required fields or ill-typed values raise.
MemoryDataOk(data) ==
    /\ RequiredFields \subseteq DOMAIN data
    /\ \A f \in FieldSet \cap DOMAIN data : FieldTypeOk(f, data[f])

MemoryData(data, clock) ==
    [f \in FieldSet |-> IF f \in DOMAIN data THEN data[f] ELSE FieldDefault(f, clock)]

\* mutant of model_dump: the dump leaves the tags out
model_dump_excluding_tags(entity) == [f \in FieldSet \ {"tags"} |-> entity[f]]

\* entity.model_dump(): the dict of the declared fields
model_dump(entity) == [f \in FieldSet |-> entity[f]]

(***************************************************************************)
(* JSON text: the sequence of members written, each a key and a JSON       *)
(* value (string, array of strings, number, null).                         *)
(***************************************************************************)
\* the encoding of one Python value (json.dump)
ToJson(v) ==
    CASE v.t = "str" -> [j |-> "string", s |-> v.s]
      [] v.t = "list" -> [j |-> "array", a |-> v.l]
      [] v.t = "int" -> [j |-> "number", n |-> v.n]
      [] v.t = "NoneType" -> [j |-> "null"]

\* the decoding of one JSON value (json.load)
FromJson(x) ==
    CASE x.j = "string" -> PyStr(x.s)
      [] x.j = "array" -> PyList(x.a)
      [] x.j = "number" -> PyInt(x.n)
      [] x.j = "null" -> PyNone

\* the keys of a dict in the order json.dump writes them: the declared fields
\* in declaration order, then the keys the entity type does not declare
KeyOrder == Fields \o <<"topic_slug">>
DictKeys(d) == SelectSeq(KeyOrder, LAMBDA k : k \in DOMAIN d)

\* json.dump(entity_data, f, indent=2)
JsonDump(d) ==
    LET ks == DictKeys(d)
    IN [i \in 1..Len(ks) |-> [k |-> ks[i], v |-> ToJson(d[ks[i]])]]

\* json.load(f): the dict of the members; a repeated key keeps its last value
JsonLoad(text) ==
    LET keys == {text[i].k : i \in 1..Len(text)}
        last(k) == CHOOSE i \in 1..Len(text) :
                      /\ text[i].k = k
                      /\ \A m \in 1..Len(text) : text[m].k = k => m <= i
    IN [k \in keys |-> FromJson(text[last(k)].v)]

(***************************************************************************)
(* The storage directory.                                                  *)
(***************************************************************************)
NoFile == [st |-> "absent"]
JsonFile(text) == [st |-> "json", text |-> text]
\* a file whose write stopped part way: not valid JSON
TruncatedFile == [st |-> "truncated"]

VARIABLES
    files,      \* file stem -> content of "<stem>.json"
    dirOrder,   \* the stems of the existing files, in directory listing order
    now,        \* the wall clock
    call,       \* the last call made on the storage and what it returned
    created,    \* history: the ids some create has succeeded for
    stored,     \* history: id -> what the last successful create/update of it
                \* returned, None when never created or deleted since, and
                \* a mark when its file was corrupted since
    messages,       \* ConversationManager.messages
    max_messages,   \* ConversationManager.max_messages
    added,          \* history: the first and the latest message added since
                    \* the last clear()
    max_retries,    \* ClaudeClient.max_retries
    retry_delay,    \* ClaudeClient.retry_delay, in milliseconds
    attempt,        \* send_request: the loop variable
    last_error,     \* send_request: last_error
    posts,          \* history: the answers to the POSTs of the request
    sleeps,         \* history: the asyncio.sleep calls of the request, in ms
    outcome,        \* send_request: still running, or what it returned or raised
    upd,            \* an update running beside other calls: where it is and what it holds
    del,             \* a delete running beside other calls: where it is
    mem_files,      \* MemoryStorage: file name -> text of the file, for the files of base_path
    mem_now,        \* the clock MemoryStorage reads: the day and the second of the day
    mem_log,         \* history: the file name and the text of each create_memory call
    tasks           \* the create calls handed to the event loop: where each is and what it returned

\* the state of the storage and of its caller
storeVars == <<files, dirOrder, now, call, created, stored>>
\* the state of a ConversationManager
convVars == <<messages, max_messages, added>>
\* the state of a ClaudeClient and of its send_request
clientVars == <<max_retries, retry_delay, attempt, last_error, posts, sleeps, outcome>>

\* the update and the delete that run without a lock, file operation by file operation
raceVars == <<upd, del>>

\* the state of a MemoryStorage
memVars == <<mem_files, mem_now, mem_log>>

\* the tasks of the event loop
loopVars == <<tasks>>

\* all but the storage, all but the conversation, all but the client
nonStoreVars == <<convVars, clientVars, raceVars, memVars, loopVars>>
nonConvVars == <<storeVars, clientVars, raceVars, memVars, loopVars>>
nonClientVars == <<storeVars, convVars, raceVars, memVars, loopVars>>

\* all but the storage and the racing calls
nonRaceStoreVars == <<convVars, clientVars, memVars, loopVars>>
nonRaceVars == <<storeVars, convVars, clientVars, memVars, loopVars>>

nonMemVars == <<storeVars, convVars, clientVars, raceVars, loopVars>>

\* all but the storage and the tasks
nonStoreLoopVars == <<convVars, clientVars, raceVars, memVars>>
nonLoopVars == <<storeVars, convVars, clientVars, raceVars, memVars>>

vars == <<storeVars, convVars, clientVars, raceVars, memVars, loopVars>>

(***************************************************************************)
(* What a call returns or raises.                                          *)
(***************************************************************************)
RetEntity(e) == [kind |-> "entity", entity |-> e]
RetNone == [kind |-> "none"]
RetBool(b) == [kind |-> "bool", flag |-> b]
RetList(l) == [kind |-> "list", list |-> l]
RetRaise(x) == [kind |-> "raise", exc |-> x]
RetStats(d) == [kind |-> "stats", stats |-> d]

\* raise ValueError(f"Entity with ID {entity.id} already exists"): the
\* duplicate-id error of create
DuplicateIdError == RetRaise("ValueError: already exists")
ValidationError == RetRaise("ValidationError")
IOFailure == RetRaise("OSError")

\* An I/O failure met by a call: which file operation of the call fails ("open"
\* for writing, "write", "read" for the open and read of a load, "unlink",
\* "glob"), and on which file.  A call meets only a failure of an operation it
\* gets to.
Fault(at, stem) == [at |-> at, stem |-> stem]
NoFault == Fault("none", "")

(***************************************************************************)
(* Strings.  The filters look inside strings (split, lower, in, >=), so    *)
(* the strings they look into are given by their characters.               *)
(***************************************************************************)
\* the date part of each clock reading: isoformat().split("T")[0]
DatePool == <<"2024-01-01", "2024-01-02", "2024-01-03", "2024-01-04">>

\* s.split("T")[0] of an ISO timestamp: the text before the first "T"
SplitT(s) ==
    IF \E i \in 1..Len(TimePool) : TimePool[i] = s
    THEN DatePool[CHOOSE i \in 1..Len(TimePool) : TimePool[i] = s]
    ELSE s

\* a <= b of two strings: YYYY-MM-DD dates compare as text in calendar order
StrLeq(a, b) ==
    LET rank(d) == CHOOSE i \in 1..Len(DatePool) : DatePool[i] = d
    IN rank(a) <= rank(b)

\* the characters of the titles, contents, search terms, dates and times in play
Chars(s) ==
    CASE s = "Hello" -> <<"H", "e", "l", "l", "o">>
      [] s = "Goodbye" -> <<"G", "o", "o", "d", "b", "y", "e">>
      [] s = "Content 1" -> <<"C", "o", "n", "t", "e", "n", "t", " ", "1">>
      [] s = "hello" -> <<"h", "e", "l", "l", "o">>
      [] s = "BYE" -> <<"B", "Y", "E">>
      [] s = "tent" -> <<"t", "e", "n", "t">>
      [] s = "memo" -> <<"m", "e", "m", "o">>
      [] s = "2024-01-01" -> <<"2", "0", "2", "4", "-", "0", "1", "-", "0", "1">>
      [] s = "2024-01-02" -> <<"2", "0", "2", "4", "-", "0", "1", "-", "0", "2">>
      [] s = "2024-01-03" -> <<"2", "0", "2", "4", "-", "0", "1", "-", "0", "3">>
      [] s = "2024-01-04" -> <<"2", "0", "2", "4", "-", "0", "1", "-", "0", "4">>
      [] s = "090000" -> <<"0", "9", "0", "0", "0", "0">>
      [] s = "090001" -> <<"0", "9", "0", "0", "0", "1">>
      [] s = "090002" -> <<"0", "9", "0", "0", "0", "2">>
      [] s = "090003" -> <<"0", "9", "0", "0", "0", "3">>
      [] s = ".md" -> <<".", "m", "d">>
      [] s = "" -> <<>>

\* str.lower(), character by character
LowerChar(c) ==
    CASE c = "H" -> "h" [] c = "G" -> "g" [] c = "C" -> "c"
      [] c = "B" -> "b" [] c = "Y" -> "y" [] c = "E" -> "e"
      [] OTHER -> c

Lower(cs) == [i \in 1..Len(cs) |-> LowerChar(cs[i])]

\* needle in hay, for two strings
Contains(hay, needle) ==
    \E i \in 1..(Len(hay) - Len(needle) + 1) : SubSeq(hay, i, i + Len(needle) - 1) = needle

(***************************************************************************)
(* EntityFilter: limit and offset, each an int or None.  MemoryFilter adds *)
(* the predicates, each a value or None.                                   *)
(***************************************************************************)
EntityFilter(limit, offset) == [t |-> "EntityFilter", limit |-> limit, offset |-> offset]

MemoryFilter(limit, offset, date_from, date_to, tags, content_search, source) ==
    [t |-> "MemoryFilter", limit |-> limit, offset |-> offset,
     date_from |-> date_from, date_to |-> date_to, tags |-> tags,
     content_search |-> content_search, source |-> source]

\* Python's seq[n:] and seq[:n], negative n counting from the end
SliceFrom(seq, n) ==
    LET from == IF n >= 0 THEN n ELSE IF Len(seq) + n > 0 THEN Len(seq) + n ELSE 0
    IN SubSeq(seq, from + 1, Len(seq))

SliceTo(seq, n) ==
    LET to == IF n >= 0 THEN n ELSE IF Len(seq) + n > 0 THEN Len(seq) + n ELSE 0
    IN SubSeq(seq, 1, IF to < Len(seq) THEN to ELSE Len(seq))

\* hasattr(obj, name): a field of the object, or, on a MemoryData, one of its
\* properties
hasattr(obj, name) ==
    \/ name \in DOMAIN obj
    \/ name \in {"date_slug", "topic_slug", "filename"} /\ DOMAIN obj = FieldSet

\* MemoryData.date_slug
date_slug(entity) == SplitT(entity["created_at"].s)

\* JSONFileBackend._match_date_from: a failing comparison is caught and passes
_match_date_from(entity, date_from) ==
    IF hasattr(entity, "date_slug") THEN StrLeq(date_from, date_slug(entity))
    ELSE IF hasattr(entity, "created_at")
    THEN IF entity["created_at"].t = "str"
         THEN StrLeq(date_from, SplitT(entity["created_at"].s))
         ELSE TRUE
    ELSE TRUE

\* JSONFileBackend._match_date_to
_match_date_to(entity, date_to) ==
    IF hasattr(entity, "date_slug") THEN StrLeq(date_slug(entity), date_to)
    ELSE IF hasattr(entity, "created_at")
    THEN IF entity["created_at"].t = "str"
         THEN StrLeq(SplitT(entity["created_at"].s), date_to)
         ELSE TRUE
    ELSE TRUE

\* mutant of JSONFileBackend._match_tags: all(...) in place of any(...)
_match_tags_all(entity, tags) ==
    IF hasattr(entity, "tags") /\ Truthy(entity["tags"])
    THEN \A i \in 1..Len(tags) : \E k \in 1..Len(entity["tags"].l) : entity["tags"].l[k] = tags[i]
    ELSE FALSE

\* JSONFileBackend._match_tags: any(tag in entity.tags for tag in tags)
_match_tags(entity, tags) ==
    IF hasattr(entity, "tags") /\ Truthy(entity["tags"])
    THEN \E i \in 1..Len(tags) : \E k \in 1..Len(entity["tags"].l) : entity["tags"].l[k] = tags[i]
    ELSE FALSE

\* JSONFileBackend._match_content_search: the lowered term in the lowered title
\* or content
_match_content_search(entity, search_term) ==
    LET search_lower == Lower(Chars(search_term))
        inField(f) == /\ hasattr(entity, f)
                      /\ Truthy(entity[f])
                      /\ Contains(Lower(Chars(entity[f].s)), search_lower)
    IN inField("title") \/ inField("content")

\* JSONFileBackend._match_source
_match_source(entity, source) ==
    IF hasattr(entity, "source") THEN entity["source"] = PyStr(source) ELSE FALSE

\* the filter names the predicate attr and gives it a truthy value
FilterHas(filter_data, attr) ==
    attr \in DOMAIN filter_data /\ Truthy(filter_data[attr])

\* JSONFileBackend._apply_filter: the predicates the filter has, in the order
\* of the code, then the pagination, offset first
_apply_filter(entities, filter_data) ==
    LET f1 == IF FilterHas(filter_data, "date_from")
              THEN SelectSeq(entities, LAMBDA e : _match_date_from(e, filter_data.date_from.s))
              ELSE entities
        f2 == IF FilterHas(filter_data, "date_to")
              THEN SelectSeq(f1, LAMBDA e : _match_date_to(e, filter_data.date_to.s))
              ELSE f1
        f3 == IF FilterHas(filter_data, "tags")
              THEN SelectSeq(f2, LAMBDA e : _match_tags(e, filter_data.tags.l))
              ELSE f2
        f4 == IF FilterHas(filter_data, "content_search")
              THEN SelectSeq(f3, LAMBDA e : _match_content_search(e, filter_data.content_search.s))
              ELSE f3
        filtered == IF FilterHas(filter_data, "source")
                    THEN SelectSeq(f4, LAMBDA e : _match_source(e, filter_data.source.s))
                    ELSE f4
        afterOffset == IF Truthy(filter_data.offset)
                       THEN SliceFrom(filtered, filter_data.offset.n)
                       ELSE filtered
    IN IF Truthy(filter_data.limit)
       THEN SliceTo(afterOffset, filter_data.limit.n)
       ELSE afterOffset

(***************************************************************************)
(* JSONFileBackend.  Each operation is an operator of the directory        *)
(* (fs: stem -> content; order: listing order), its arguments, the clock   *)
(* and the injected I/O failure; the mutating ones give the new directory  *)
(* and the result.                                                         *)
(***************************************************************************)
\* _get_file_path: storage_path / f"{entity_id}.json", named by its stem
_get_file_path(entity_id) == entity_id

\* JSONFileBackend.exists: file_path.exists()
JSONFileBackend_exists(fs, entity_id) == fs[_get_file_path(entity_id)].st # "absent"

\* json.load of a file followed by entity_type(**entity_data) succeeds
Loadable(fs, stem) ==
    /\ fs[stem].st = "json"
    /\ MemoryDataOk(JsonLoad(fs[stem].text))

LoadEntity(fs, stem, clock) == MemoryData(JsonLoad(fs[stem].text), clock)

\* mutant of JSONFileBackend.get: the error of a failed load is raised
JSONFileBackend_get_raises_malformed(fs, entity_id, clock, fault) ==
    LET file_path == _get_file_path(entity_id)
    IN IF ~JSONFileBackend_exists(fs, entity_id) THEN RetNone
       ELSE IF fault.at = "read" THEN RetNone
       ELSE IF ~Loadable(fs, file_path) THEN ValidationError
       ELSE RetEntity(LoadEntity(fs, file_path, clock))

\* JSONFileBackend.get
JSONFileBackend_get(fs, entity_id, clock, fault) ==
    LET file_path == _get_file_path(entity_id)
    IN IF ~JSONFileBackend_exists(fs, entity_id) THEN RetNone
       ELSE IF fault.at = "read" THEN RetNone
       ELSE IF ~Loadable(fs, file_path) THEN RetNone
       ELSE RetEntity(LoadEntity(fs, file_path, clock))

\* mutant of JSONFileBackend.list: the loop over the files ends after the first
\* entity it loads
JSONFileBackend_list_stops_early(fs, order, filter_data, clock, fault) ==
    LET loaded == SelectSeq(order, LAMBDA stem :
                      /\ ~(fault.at = "read" /\ fault.stem = stem)
                      /\ Loadable(fs, stem))
        entities == [k \in 1..(IF Len(loaded) > 1 THEN 1 ELSE Len(loaded)) |->
                        LoadEntity(fs, loaded[k], clock)]
    IN IF fault.at = "glob" THEN RetList(<<>>)
       ELSE IF filter_data.t # "NoneType"
       THEN RetList(_apply_filter(entities, filter_data))
       ELSE RetList(entities)

\* mutant of JSONFileBackend.list: a file that fails to load ends the listing
\* with the outer handler's empty list
JSONFileBackend_list_aborts_on_error(fs, order, filter_data, clock, fault) ==
    LET loaded == SelectSeq(order, LAMBDA stem :
                      /\ ~(fault.at = "read" /\ fault.stem = stem)
                      /\ Loadable(fs, stem))
        entities == [k \in 1..Len(loaded) |-> LoadEntity(fs, loaded[k], clock)]
    IN IF fault.at = "glob" \/ Len(loaded) < Len(order) THEN RetList(<<>>)
       ELSE IF filter_data.t # "NoneType"
       THEN RetList(_apply_filter(entities, filter_data))
       ELSE RetList(entities)

\* JSONFileBackend.list
JSONFileBackend_list(fs, order, filter_data, clock, fault) ==
    LET loaded == SelectSeq(order, LAMBDA stem :
                      /\ ~(fault.at = "read" /\ fault.stem = stem)
                      /\ Loadable(fs, stem))
        entities == [k \in 1..Len(loaded) |-> LoadEntity(fs, loaded[k], clock)]
    IN IF fault.at = "glob" THEN RetList(<<>>)
       ELSE IF filter_data.t # "NoneType"
       THEN RetList(_apply_filter(entities, filter_data))
       ELSE RetList(entities)

\* the directory listing with a new file entered at position pos
InsertAt(order, pos, stem) ==
    SubSeq(order, 1, pos) \o <<stem>> \o SubSeq(order, pos + 1, Len(order))

\* mutant of JSONFileBackend.create: no check that the file exists already
JSONFileBackend_create_overwrites(fs, order, entity, pos, fault) ==
    LET file_path == _get_file_path(entity["id"].s)
        listed == IF JSONFileBackend_exists(fs, entity["id"].s)
                  THEN order ELSE InsertAt(order, pos, file_path)
    IN IF fault.at = "open"
       THEN [files |-> fs, order |-> order, ret |-> IOFailure]
       ELSE IF fault.at = "write"
       THEN [files |-> [fs EXCEPT ![file_path] = TruncatedFile],
             order |-> listed, ret |-> IOFailure]
       ELSE [files |-> [fs EXCEPT ![file_path] = JsonFile(JsonDump(model_dump(entity)))],
             order |-> listed, ret |-> RetEntity(entity)]

\* mutant of JSONFileBackend.create: the except clause returns None instead of
\* raising again
JSONFileBackend_create_swallows(fs, order, entity, pos, fault) ==
    LET file_path == _get_file_path(entity["id"].s)
    IN IF JSONFileBackend_exists(fs, entity["id"].s)
       THEN [files |-> fs, order |-> order, ret |-> RetNone]
       ELSE IF fault.at = "open"
       THEN [files |-> fs, order |-> order, ret |-> RetNone]
       ELSE IF fault.at = "write"
       THEN [files |-> [fs EXCEPT ![file_path] = TruncatedFile],
             order |-> InsertAt(order, pos, file_path),
             ret |-> RetNone]
       ELSE [files |-> [fs EXCEPT ![file_path] = JsonFile(JsonDump(model_dump(entity)))],
             order |-> InsertAt(order, pos, file_path),
             ret |-> RetEntity(entity)]

\* mutant of JSONFileBackend.create: a file that does not load is taken for
\* no file, and written over
JSONFileBackend_create_over_malformed(fs, order, entity, pos, fault) ==
    LET file_path == _get_file_path(entity["id"].s)
        listed == IF JSONFileBackend_exists(fs, entity["id"].s)
                  THEN order ELSE InsertAt(order, pos, file_path)
    IN IF Loadable(fs, file_path)
       THEN [files |-> fs, order |-> order, ret |-> DuplicateIdError]
       ELSE IF fault.at = "open"
       THEN [files |-> fs, order |-> order, ret |-> IOFailure]
       ELSE IF fault.at = "write"
       THEN [files |-> [fs EXCEPT ![file_path] = TruncatedFile],
             order |-> listed, ret |-> IOFailure]
       ELSE [files |-> [fs EXCEPT ![file_path] = JsonFile(JsonDump(model_dump(entity)))],
             order |-> listed, ret |-> RetEntity(entity)]

\* JSONFileBackend.create
JSONFileBackend_create(fs, order, entity, pos, fault) ==
    LET file_path == _get_file_path(entity["id"].s)
    IN IF JSONFileBackend_exists(fs, entity["id"].s)
       THEN [files |-> fs, order |-> order, ret |-> DuplicateIdError]
       ELSE IF fault.at = "open"
       THEN [files |-> fs, order |-> order, ret |-> IOFailure]
       ELSE IF fault.at = "write"
       THEN [files |-> [fs EXCEPT ![file_path] = TruncatedFile],
             order |-> InsertAt(order, pos, file_path),
             ret |-> IOFailure]
       ELSE [files |-> [fs EXCEPT ![file_path] = JsonFile(JsonDump(model_dump(entity)))],
             order |-> InsertAt(order, pos, file_path),
             ret |-> RetEntity(entity)]

\* mutant of entity_data.update(updates): a key the dict has keeps its value
DictUpdate_keeps_existing(d, updates) ==
    [k \in DOMAIN d \cup DOMAIN updates |-> IF k \in DOMAIN d THEN d[k] ELSE updates[k]]

\* entity_data.update(updates)
DictUpdate(d, updates) ==
    [k \in DOMAIN d \cup DOMAIN updates |-> IF k \in DOMAIN updates THEN updates[k] ELSE d[k]]

\* mutant of JSONFileBackend.update: created_at is stamped along with updated_at
JSONFileBackend_update_stamps_created(fs, entity_id, updates, clock, fault) ==
    LET got == JSONFileBackend_get(fs, entity_id, clock, fault)
        merged == DictUpdate(model_dump(got.entity), updates)
        entity_data == [k \in DOMAIN merged |->
                           IF k \in {"created_at", "updated_at"}
                           THEN get_current_timestamp(clock) ELSE merged[k]]
        file_path == _get_file_path(entity_id)
    IN IF got.kind # "entity" THEN [files |-> fs, ret |-> RetNone]
       ELSE IF ~MemoryDataOk(entity_data) THEN [files |-> fs, ret |-> RetNone]
       ELSE IF fault.at = "open" THEN [files |-> fs, ret |-> RetNone]
       ELSE IF fault.at = "write"
       THEN [files |-> [fs EXCEPT ![file_path] = TruncatedFile], ret |-> RetNone]
       ELSE [files |-> [fs EXCEPT ![file_path] = JsonFile(JsonDump(entity_data))],
             ret |-> RetEntity(MemoryData(entity_data, clock))]

\* mutant of JSONFileBackend.update: an id without a record gets one made of
\* the updates
JSONFileBackend_update_upserts(fs, entity_id, updates, clock, fault) ==
    LET got == JSONFileBackend_get(fs, entity_id, clock, fault)
        merged == DictUpdate(model_dump(got.entity), updates)
        entity_data == IF "updated_at" \in DOMAIN merged
                       THEN [merged EXCEPT !["updated_at"] = get_current_timestamp(clock)]
                       ELSE merged
        file_path == _get_file_path(entity_id)
    IN IF got.kind # "entity"
       THEN [files |-> [fs EXCEPT ![file_path] = JsonFile(JsonDump(updates))], ret |-> RetNone]
       ELSE IF ~MemoryDataOk(entity_data) THEN [files |-> fs, ret |-> RetNone]
       ELSE IF fault.at = "open" THEN [files |-> fs, ret |-> RetNone]
       ELSE IF fault.at = "write"
       THEN [files |-> [fs EXCEPT ![file_path] = TruncatedFile], ret |-> RetNone]
       ELSE [files |-> [fs EXCEPT ![file_path] = JsonFile(JsonDump(entity_data))],
             ret |-> RetEntity(MemoryData(entity_data, clock))]

\* mutant of JSONFileBackend.update: the file written is the one named by the
\* id of the merged entity, not by entity_id
JSONFileBackend_update_writes_merged_id(fs, entity_id, updates, clock, fault) ==
    LET got == JSONFileBackend_get(fs, entity_id, clock, fault)
        merged == DictUpdate(model_dump(got.entity), updates)
        entity_data == IF "updated_at" \in DOMAIN merged
                       THEN [merged EXCEPT !["updated_at"] = get_current_timestamp(clock)]
                       ELSE merged
        file_path == _get_file_path(entity_data["id"].s)
    IN IF got.kind # "entity" THEN [files |-> fs, ret |-> RetNone]
       ELSE IF ~MemoryDataOk(entity_data) THEN [files |-> fs, ret |-> RetNone]
       ELSE IF fault.at = "open" THEN [files |-> fs, ret |-> RetNone]
       ELSE IF fault.at = "write"
       THEN [files |-> [fs EXCEPT ![file_path] = TruncatedFile], ret |-> RetNone]
       ELSE [files |-> [fs EXCEPT ![file_path] = JsonFile(JsonDump(entity_data))],
             ret |-> RetEntity(MemoryData(entity_data, clock))]

\* mutant of JSONFileBackend.update: updated_at is stamped only when the patch
\* does not give one
JSONFileBackend_update_keeps_patch_stamp(fs, entity_id, updates, clock, fault) ==
    LET got == JSONFileBackend_get(fs, entity_id, clock, fault)
        merged == DictUpdate(model_dump(got.entity), updates)
        entity_data == IF "updated_at" \in DOMAIN merged /\ "updated_at" \notin DOMAIN updates
                       THEN [merged EXCEPT !["updated_at"] = get_current_timestamp(clock)]
                       ELSE merged
        file_path == _get_file_path(entity_id)
    IN IF got.kind # "entity" THEN [files |-> fs, ret |-> RetNone]
       ELSE IF ~MemoryDataOk(entity_data) THEN [files |-> fs, ret |-> RetNone]
       ELSE IF fault.at = "open" THEN [files |-> fs, ret |-> RetNone]
       ELSE IF fault.at = "write"
       THEN [files |-> [fs EXCEPT ![file_path] = TruncatedFile], ret |-> RetNone]
       ELSE [files |-> [fs EXCEPT ![file_path] = JsonFile(JsonDump(entity_data))],
             ret |-> RetEntity(MemoryData(entity_data, clock))]

\* mutant of JSONFileBackend.update: the merged map is written before the
\* entity is rebuilt from it
JSONFileBackend_update_writes_unvalidated(fs, entity_id, updates, clock, fault) ==
    LET got == JSONFileBackend_get(fs, entity_id, clock, fault)
        merged == DictUpdate(model_dump(got.entity), updates)
        entity_data == IF "updated_at" \in DOMAIN merged
                       THEN [merged EXCEPT !["updated_at"] = get_current_timestamp(clock)]
                       ELSE merged
        file_path == _get_file_path(entity_id)
    IN IF got.kind # "entity" THEN [files |-> fs, ret |-> RetNone]
       ELSE IF fault.at = "open" THEN [files |-> fs, ret |-> RetNone]
       ELSE IF fault.at = "write"
       THEN [files |-> [fs EXCEPT ![file_path] = TruncatedFile], ret |-> RetNone]
       ELSE IF ~MemoryDataOk(entity_data)
       THEN [files |-> [fs EXCEPT ![file_path] = JsonFile(JsonDump(entity_data))],
             ret |-> RetNone]
       ELSE [files |-> [fs EXCEPT ![file_path] = JsonFile(JsonDump(entity_data))],
             ret |-> RetEntity(MemoryData(entity_data, clock))]

\* JSONFileBackend.update
JSONFileBackend_update(fs, entity_id, updates, clock, fault) ==
    LET got == JSONFileBackend_get(fs, entity_id, clock, fault)
        merged == DictUpdate(model_dump(got.entity), updates)
        entity_data == IF "updated_at" \in DOMAIN merged
                       THEN [merged EXCEPT !["updated_at"] = get_current_timestamp(clock)]
                       ELSE merged
        file_path == _get_file_path(entity_id)
    IN IF got.kind # "entity" THEN [files |-> fs, ret |-> RetNone]
       ELSE IF ~MemoryDataOk(entity_data) THEN [files |-> fs, ret |-> RetNone]
       ELSE IF fault.at = "open" THEN [files |-> fs, ret |-> RetNone]
       ELSE IF fault.at = "write"
       THEN [files |-> [fs EXCEPT ![file_path] = TruncatedFile], ret |-> RetNone]
       ELSE [files |-> [fs EXCEPT ![file_path] = JsonFile(JsonDump(entity_data))],
             ret |-> RetEntity(MemoryData(entity_data, clock))]

\* mutant of JSONFileBackend.delete: no check that the file exists (an unlink
\* with missing_ok), so True also when there was nothing to remove
JSONFileBackend_delete_missing_ok(fs, order, entity_id, fault) ==
    LET file_path == _get_file_path(entity_id)
    IN IF fault.at = "unlink"
       THEN [files |-> fs, order |-> order, ret |-> RetBool(FALSE)]
       ELSE [files |-> [fs EXCEPT ![file_path] = NoFile],
             order |-> SelectSeq(order, LAMBDA stem : stem # file_path),
             ret |-> RetBool(TRUE)]

\* mutant of JSONFileBackend.delete: True is returned and the file is left
JSONFileBackend_delete_keeps_file(fs, order, entity_id, fault) ==
    [files |-> fs, order |-> order, ret |-> RetBool(JSONFileBackend_exists(fs, entity_id))]

\* JSONFileBackend.delete
JSONFileBackend_delete(fs, order, entity_id, fault) ==
    LET file_path == _get_file_path(entity_id)
    IN IF ~JSONFileBackend_exists(fs, entity_id)
       THEN [files |-> fs, order |-> order, ret |-> RetBool(FALSE)]
       ELSE IF fault.at = "unlink"
       THEN [files |-> fs, order |-> order, ret |-> RetBool(FALSE)]
       ELSE [files |-> [fs EXCEPT ![file_path] = NoFile],
             order |-> SelectSeq(order, LAMBDA stem : stem # file_path),
             ret |-> RetBool(TRUE)]

(***************************************************************************)
(* EntityStorage.                                                          *)
(***************************************************************************)
\* mutant of EntityStorage.create: the id is generated whatever the input has
CreateEntityData_always_generates(input_data, generated) ==
    [k \in DOMAIN input_data \cup {"id"} |->
        IF k = "id" THEN PyStr(generated) ELSE input_data[k]]

\* EntityStorage.create, up to the entity it hands to the backend: the id is
\* generated when the input has none or a falsy one
CreateEntityData(input_data, generated) ==
    IF "id" \notin DOMAIN input_data \/ ~Truthy(input_data["id"])
    THEN [k \in DOMAIN input_data \cup {"id"} |->
             IF k = "id" THEN PyStr(generated) ELSE input_data[k]]
    ELSE input_data

\* EntityStorage.create
EntityStorage_create(fs, order, input_data, generated, clock, pos, fault) ==
    LET entity_data == CreateEntityData(input_data, generated)
    IN IF ~MemoryDataOk(entity_data)
       THEN [files |-> fs, order |-> order, ret |-> ValidationError]
       ELSE JSONFileBackend_create(fs, order, MemoryData(entity_data, clock), pos, fault)

\* the values self.id_generator() returned during EntityStorage.create: it is
\* called inside the test of the id field, nowhere else
IdGeneratorCalls(input_data, generated) ==
    IF "id" \notin DOMAIN input_data \/ ~Truthy(input_data["id"])
    THEN <<generated>>
    ELSE <<>>

\* mutant of EntityStorage.get_stats: the total is the number of files
EntityStorage_get_stats_counts_files(fs, order, clock, fault) ==
    [total_entities |-> Len(order),
     entity_type |-> "MemoryData",
     storage_backend |-> "JSONFileBackend"]

\* EntityStorage.get_stats
EntityStorage_get_stats(fs, order, clock, fault) ==
    LET entities == JSONFileBackend_list(fs, order, PyNone, clock, fault).list
    IN [total_entities |-> Len(entities),
        entity_type |-> "MemoryData",
        storage_backend |-> "JSONFileBackend"]

(***************************************************************************)
(* ConversationManager: the messages of a conversation, trimmed to         *)
(* max_messages as they are added.                                         *)
(***************************************************************************)
\* ConversationManager.__init__: max_messages: int = 50
DefaultMaxMessages == 50

ClaudeMessage(role, content) == [role |-> role, content |-> content]

\* del seq[1:1 + n], n >= 1: the elements at (0-based) positions 1 .. n go,
\* as many of them as there are
DelFromSecond(seq, n) ==
    SubSeq(seq, 1, IF Len(seq) < 1 THEN Len(seq) ELSE 1) \o SubSeq(seq, n + 2, Len(seq))

\* ConversationManager.add_message: the new value of self.messages
add_message(msgs, limit, role, content) ==
    LET appended == Append(msgs, ClaudeMessage(role, content))
    IN IF Len(appended) > limit
       THEN DelFromSecond(appended, Len(appended) - limit)
       ELSE appended

\* ConversationManager.get_message_count
get_message_count(msgs) == Len(msgs)

\* no message was added since the conversation was made or cleared
NothingAdded == [first |-> <<>>, last |-> <<>>]

(***************************************************************************)
(* ClaudeClient.send_request: POST attempts with retries.                  *)
(***************************************************************************)
\* ClaudeClient.__init__: self.config.max_retries or 3
DefaultMaxRetries == 3
\* ClaudeClient.__init__: self.config.retry_delay or 1000
DefaultRetryDelay == 1000

\* last_error = None
NoError == "None"

\* send_request has not been called; it is in its loop; it returned; it raised
NotCalled == [kind |-> "not called"]
Running == [kind |-> "running"]
Returned(response) == [kind |-> "returned", response |-> response]
Raised(error) == [kind |-> "raised", error |-> error]

\* what one POST can meet: an HTTP response, or an exception of the transport
HttpResponse(status_code, body, retry_after) ==
    [kind |-> "response", status_code |-> status_code, body |-> body,
     retry_after |-> retry_after]
ConnectError == [kind |-> "exception", error |-> "ConnectError"]

\* response bodies: two that ClaudeResponse(**body) accepts, one it rejects
\* (a required field is missing), and the body of an error response
ResponseBodies == {"msg_1", "msg_2"}
MalformedBody == "no content"
ErrorBody == "error"

\* the header is absent (None), a number of seconds, or an HTTP date
NoHeader == "None"
RetryAfterValues == {NoHeader, "1", "Wed, 21 Oct 2026 07:28:00 GMT"}

\* int(retry_after): the strings in play that int() accepts
IntOf(text) ==
    IF text = "1" THEN 1 ELSE 0
IntParses(text) ==
    text \in {"1"}

\* ClaudeClient.__init__: the retry settings taken from the config
ClaudeClient_max_retries(config_max_retries) ==
    IF config_max_retries = PyNone \/ config_max_retries = PyInt(0)
    THEN DefaultMaxRetries ELSE config_max_retries.n
ClaudeClient_retry_delay(config_retry_delay) ==
    IF config_retry_delay = PyNone \/ config_retry_delay = PyInt(0)
    THEN DefaultRetryDelay ELSE config_retry_delay.n

\* what the body of one loop iteration does with the answer to its POST:
\* the response it returns (or NoResponse), the exception the except clause
\* catches (or NoError), the sleeps it awaits, and whether it continues early
NoResponse == "None"
Iteration(response, error, slept) ==
    [response |-> response, error |-> error, slept |-> slept]

\* Exception(f"Claude API error ({response.status_code}): {error_message}")
ApiError(status_code) ==
    IF status_code = 429 THEN "Claude API error (429)" ELSE "Claude API error (400)"

\* the except clause: last_error = error, then sleep unless on the last attempt
ExceptClause(error, limit, delay, att) ==
    Iteration(NoResponse, error,
              IF att < limit - 1 THEN <<delay * (att + 1)>> ELSE <<>>)

\* a 429 before the last attempt continues after its sleep, and skips the raise
send_request_no_sleep_on_429(limit, delay, att, answer) ==
    IF answer.kind = "exception"
    THEN ExceptClause(answer.error, limit, delay, att)
    ELSE IF answer.status_code = 200
    THEN IF answer.body \in ResponseBodies
         THEN Iteration(answer.body, NoError, <<>>)
         ELSE ExceptClause("ValidationError", limit, delay, att)
    ELSE IF answer.status_code = 429
            /\ answer.retry_after # NoHeader /\ ~IntParses(answer.retry_after)
    THEN ExceptClause("ValueError", limit, delay, att)
    ELSE IF answer.status_code = 429 /\ att < limit - 1
    THEN Iteration(NoResponse, NoError, <<>>)
    ELSE ExceptClause(ApiError(answer.status_code), limit, delay, att)

\* the try block of send_request and its except clause, for one attempt
send_request_iteration(limit, delay, att, answer) ==
    IF answer.kind = "exception"
    THEN ExceptClause(answer.error, limit, delay, att)
    ELSE IF answer.status_code = 200
    THEN IF answer.body \in ResponseBodies
         THEN Iteration(answer.body, NoError, <<>>)
         ELSE ExceptClause("ValidationError", limit, delay, att)
    ELSE IF answer.status_code = 429
            /\ answer.retry_after # NoHeader /\ ~IntParses(answer.retry_after)
    THEN ExceptClause("ValueError", limit, delay, att)
    ELSE IF answer.status_code = 429 /\ att < limit - 1
    THEN Iteration(NoResponse, NoError,
                   <<IF answer.retry_after # NoHeader
                     THEN IntOf(answer.retry_after) * 1000
                     ELSE delay * (att + 1)>>)
    ELSE ExceptClause(ApiError(answer.status_code), limit, delay, att)

\* raise last_error or Exception("Failed to communicate with Claude API")
send_request_raise(error) ==
    Raised(IF error = NoError THEN "Failed to communicate with Claude API" ELSE error)

(***************************************************************************)
(* The calls the model makes.                                              *)
(***************************************************************************)
Titles == {"Hello", "Goodbye"}
Contents == {"Content 1"}
Sources == {"test"}
TagLists == {<<>>, <<"x">>}

\* CreateMemoryInput.model_dump(): no id, and a topic_slug MemoryData ignores
CreateMemoryInput(title, content, source, tags) ==
    [title |-> PyStr(title), content |-> PyStr(content), source |-> PyStr(source),
     tags |-> PyList(tags), topic_slug |-> PyNone]

\* an input that carries its own id ("" is falsy, so one is generated)
InputWithId(id, title, content, source, tags) ==
    [id |-> PyStr(id), title |-> PyStr(title), content |-> PyStr(content),
     source |-> PyStr(source), tags |-> PyList(tags)]

\* an input MemoryData rejects: no title
InputWithoutTitle == [content |-> PyStr("Content 1"), source |-> PyStr("test")]

CreateInputs ==
    {CreateMemoryInput(ti, co, so, ta) :
        ti \in Titles, co \in Contents, so \in Sources, ta \in TagLists}
    \cup {InputWithId(id, ti, co, so, ta) :
        id \in Ids, ti \in Titles, co \in Contents, so \in Sources, ta \in TagLists}
    \cup {InputWithId("", "Hello", "Content 1", "test", <<"x">>)}
    \cup {InputWithoutTitle}

\* the values a patch may give a field: values of the field's type and, for
\* title, None (which MemoryData rejects)
PatchFields == {"id", "title", "tags", "updated_at"}
PatchValues(f) ==
    CASE f = "id" -> {PyStr(i) : i \in Ids}
      [] f = "title" -> {PyStr(ti) : ti \in Titles} \cup {PyNone}
      [] f = "tags" -> {PyList(ta) : ta \in TagLists}
      [] f = "updated_at" -> {get_current_timestamp(c) : c \in Times}

\* the patches: the empty one, every patch of one field, and the patches of
\* title and tags together
PatchesOver(D) == {p \in [D -> UNION {PatchValues(f) : f \in D}] :
                      \A f \in D : p[f] \in PatchValues(f)}
Patches ==
    UNION {PatchesOver(D) : D \in {{}} \cup {{f} : f \in PatchFields} \cup {{"title", "tags"}}}

PageValues == {PyNone} \cup {PyInt(n) : n \in 0..MaxPage}
Filters == {PyNone} \cup {EntityFilter(l, o) : l \in PageValues, o \in PageValues}

EmptyDict == [k \in {} |-> PyNone]

\* the record of a call: the operation, its arguments, the I/O failure it met,
\* what it returned, and the ids the id generator made for it
Call(op, id, arg, filter_data, fault, ret) ==
    [op |-> op, id |-> id, arg |-> arg, filter |-> filter_data, fault |-> fault, ret |-> ret,
     gen |-> <<>>]

\* no call is in progress: the caller has taken the last result
Idle == Call("idle", "", EmptyDict, PyNone, NoFault, RetNone)

\* the storage directory newly made and empty, no call made yet
StoreUnused ==
    /\ files = [stem \in Ids |-> NoFile]
    /\ dirOrder = <<>>
    /\ now = 1
    /\ call = Idle
    /\ created = {}
    /\ stored = [id \in Ids |-> RetNone]

\* ConversationManager(): no message yet
ConversationUnused ==
    /\ messages = <<>>
    /\ max_messages = DefaultMaxMessages
    /\ added = NothingAdded

\* ClaudeClient(ClaudeConfig(api_key=...)): no request made yet
ClientUnused ==
    /\ max_retries = DefaultMaxRetries
    /\ retry_delay = DefaultRetryDelay
    /\ attempt = 0
    /\ last_error = NoError
    /\ posts = <<>>
    /\ sleeps = <<>>
    /\ outcome = NotCalled

\* a call that runs beside another one, one file operation at a time
NotRunning == [pc |-> "none"]
\* update(id, updates): data is the merged field map once it is built, linked
\* tells whether the file it opened is still the one its path names
UpdateTask(pc, id, updates, data, linked, ret) ==
    [pc |-> pc, id |-> id, updates |-> updates, data |-> data, linked |-> linked, ret |-> ret]
\* delete(id): upd_pc is history, where the update was when the unlink ran
DeleteTask(pc, id, ret, upd_pc) ==
    [pc |-> pc, id |-> id, ret |-> ret, upd_pc |-> upd_pc]

\* no update and no delete is under way
NoRace ==
    /\ upd = NotRunning
    /\ del = NotRunning

\* MemoryStorage(base_path): the directory is new and empty
NoMemories ==
    /\ mem_files = <<>>
    /\ mem_now = [day |-> 1, sec |-> 1]
    /\ mem_log = <<>>

\* the event loop has no task
NoTasks ==
    /\ tasks = <<>>

Init ==
    /\ files = [stem \in Ids |-> NoFile]
    /\ dirOrder = <<>>
    /\ now = 1
    /\ call = Idle
    /\ created = {}
    /\ stored = [id \in Ids |-> RetNone]
    /\ ConversationUnused
    /\ ClientUnused
    /\ NoRace
    /\ NoMemories
    /\ NoTasks

\* storage.create(input_data)
Create(input_data, generated, pos, fault) ==
    LET r == EntityStorage_create(files, dirOrder, input_data, generated, now, pos, fault)
        entity_data == CreateEntityData(input_data, generated)
        id == IF "id" \in DOMAIN entity_data /\ entity_data["id"].t = "str"
              THEN entity_data["id"].s ELSE ""
    IN /\ call = Idle
       /\ fault # NoFault =>
             /\ fault \in {Fault("open", id), Fault("write", id)}
             /\ MemoryDataOk(entity_data)
             /\ ~JSONFileBackend_exists(files, id)
       /\ files' = r.files
       /\ dirOrder' = r.order
       /\ call' = [Call("create", id, input_data, PyNone, fault, r.ret)
                    EXCEPT !.gen = IdGeneratorCalls(input_data, generated)]
       /\ created' = IF r.ret.kind = "entity" THEN created \cup {id} ELSE created
       /\ stored' = IF r.ret.kind = "entity" THEN [stored EXCEPT ![id] = r.ret] ELSE stored
       /\ UNCHANGED <<now, nonStoreVars>>

\* mutant of storage.get: a file that fails to load is removed
Get_removes_malformed(entity_id, fault) ==
    LET malformed == JSONFileBackend_exists(files, entity_id) /\ ~Loadable(files, entity_id)
    IN /\ call = Idle
       /\ call' = Call("get", entity_id, EmptyDict, PyNone, fault,
                       JSONFileBackend_get(files, entity_id, now, fault))
       /\ files' = IF malformed THEN [files EXCEPT ![entity_id] = NoFile] ELSE files
       /\ dirOrder' = IF malformed
                      THEN SelectSeq(dirOrder, LAMBDA stem : stem # entity_id)
                      ELSE dirOrder
       /\ UNCHANGED <<now, created, stored, nonStoreVars>>

\* storage.get(entity_id)
Get(entity_id, fault) ==
    /\ call = Idle
    /\ fault # NoFault =>
          /\ fault = Fault("read", entity_id)
          /\ JSONFileBackend_exists(files, entity_id)
    /\ call' = Call("get", entity_id, EmptyDict, PyNone, fault,
                    JSONFileBackend_get(files, entity_id, now, fault))
    /\ UNCHANGED <<files, dirOrder, now, created, stored, nonStoreVars>>

\* storage.list(filter_data)
List(filter_data, fault) ==
    /\ call = Idle
    /\ fault # NoFault =>
          \/ fault = Fault("glob", "")
          \/ \E k \in 1..Len(dirOrder) : fault = Fault("read", dirOrder[k])
    /\ call' = Call("list", "", EmptyDict, filter_data, fault,
                    JSONFileBackend_list(files, dirOrder, filter_data, now, fault))
    /\ UNCHANGED <<files, dirOrder, now, created, stored, nonStoreVars>>

\* storage.update(entity_id, updates)
Update(entity_id, updates, fault) ==
    LET r == JSONFileBackend_update(files, entity_id, updates, now, fault)
    IN /\ call = Idle
       /\ fault # NoFault =>
             \/ /\ fault = Fault("read", entity_id)
                /\ JSONFileBackend_exists(files, entity_id)
             \/ /\ fault \in {Fault("open", entity_id), Fault("write", entity_id)}
                /\ JSONFileBackend_update(files, entity_id, updates, now, NoFault).ret.kind
                       = "entity"
       /\ files' = r.files
       /\ call' = Call("update", entity_id, updates, PyNone, fault, r.ret)
       /\ stored' = IF r.ret.kind = "entity" THEN [stored EXCEPT ![entity_id] = r.ret] ELSE stored
       /\ UNCHANGED <<dirOrder, now, created, nonStoreVars>>

\* storage.delete(entity_id)
Delete(entity_id, fault) ==
    LET r == JSONFileBackend_delete(files, dirOrder, entity_id, fault)
    IN /\ call = Idle
       /\ fault # NoFault =>
             /\ fault = Fault("unlink", entity_id)
             /\ JSONFileBackend_exists(files, entity_id)
       /\ files' = r.files
       /\ dirOrder' = r.order
       /\ call' = Call("delete", entity_id, EmptyDict, PyNone, fault, r.ret)
       /\ stored' = IF r.ret = RetBool(TRUE) THEN [stored EXCEPT ![entity_id] = RetNone] ELSE stored
       /\ UNCHANGED <<now, created, nonStoreVars>>

\* storage.exists(entity_id)
Exists(entity_id) ==
    /\ call = Idle
    /\ call' = Call("exists", entity_id, EmptyDict, PyNone, NoFault,
                    RetBool(JSONFileBackend_exists(files, entity_id)))
    /\ UNCHANGED <<files, dirOrder, now, created, stored, nonStoreVars>>

\* the call returns to its caller, which may then make the next one
Return ==
    /\ call # Idle
    /\ call.op # "race"
    /\ call' = Idle
    /\ UNCHANGED <<files, dirOrder, now, created, stored, nonStoreVars>>

\* time passes between two calls
Tick ==
    /\ call = Idle
    /\ now < MaxTime
    /\ now' = now + 1
    /\ UNCHANGED <<files, dirOrder, call, created, stored, nonStoreVars>>

\* the file system works: no call meets an I/O failure
Next ==
    \/ \E input_data \in CreateInputs, generated \in Ids, pos \in 0..Len(dirOrder) :
          Create(input_data, generated, pos, NoFault)
    \/ \E entity_id \in Ids : Get(entity_id, NoFault)
    \/ \E filter_data \in Filters : List(filter_data, NoFault)
    \/ \E entity_id \in Ids, updates \in Patches : Update(entity_id, updates, NoFault)
    \/ \E entity_id \in Ids : Delete(entity_id, NoFault)
    \/ \E entity_id \in Ids : Exists(entity_id)
    \/ Return
    \/ Tick

Spec == Init /\ [][Next]_vars

\* the calls made while file operations may fail
IOInputs == {InputWithId(id, "Hello", "Content 1", "test", <<"x">>) : id \in Ids}
IOPatches == {[title |-> PyStr("Goodbye")], [title |-> PyNone]}
Faults == {NoFault} \cup {Fault(at, stem) : at \in {"open", "write", "read", "unlink"}, stem \in Ids}
             \cup {Fault("glob", "")}

\* any file operation of a call may fail (disk full, permission denied)
NextIO ==
    \/ \E input_data \in IOInputs, generated \in Ids, pos \in 0..Len(dirOrder), fault \in Faults :
          Create(input_data, generated, pos, fault)
    \/ \E entity_id \in Ids, fault \in Faults : Get(entity_id, fault)
    \/ \E fault \in Faults : List(PyNone, fault)
    \/ \E entity_id \in Ids, updates \in IOPatches, fault \in Faults :
          Update(entity_id, updates, fault)
    \/ \E entity_id \in Ids, fault \in Faults : Delete(entity_id, fault)
    \/ \E entity_id \in Ids : Exists(entity_id)
    \/ Return
    \/ Tick

SpecIO == Init /\ [][NextIO]_vars

(***************************************************************************)
(* Records corrupted behind the storage's back.                            *)
(***************************************************************************)
\* the mark of a corrupted record in the history
Corrupted == [kind |-> "corrupt"]

\* the ways a record is damaged: its text is no longer JSON, its JSON lost the
\* title MemoryData requires, its JSON has null for the title
Damages == {"invalid json", "title missing", "title null"}

CorruptContent(content, how) ==
    LET d == JsonLoad(content.text)
    IN CASE how = "invalid json" -> TruncatedFile
         [] how = "title missing" -> JsonFile(JsonDump([k \in DOMAIN d \ {"title"} |-> d[k]]))
         [] how = "title null" -> JsonFile(JsonDump([d EXCEPT !["title"] = PyNone]))

\* somebody overwrites the file of a stored record
Corrupt(entity_id, how) ==
    /\ call = Idle
    /\ Loadable(files, entity_id)
    /\ files' = [files EXCEPT ![entity_id] = CorruptContent(files[entity_id], how)]
    /\ stored' = [stored EXCEPT ![entity_id] = Corrupted]
    /\ UNCHANGED <<dirOrder, now, call, created, nonStoreVars>>

\* storage.get_stats()
GetStats(fault) ==
    /\ call = Idle
    /\ call' = Call("get_stats", "", EmptyDict, PyNone, fault,
                    RetStats(EntityStorage_get_stats(files, dirOrder, now, fault)))
    /\ UNCHANGED <<files, dirOrder, now, created, stored, nonStoreVars>>

CorruptFilters ==
    {PyNone, EntityFilter(PyInt(1), PyNone), EntityFilter(PyNone, PyInt(1)),
     MemoryFilter(PyNone, PyNone, PyNone, PyNone, PyList(<<"x">>), PyNone, PyNone),
     MemoryFilter(PyInt(1), PyNone, PyStr(DatePool[1]), PyNone, PyNone, PyStr("hello"), PyStr("test"))}

\* the storage in use while records get corrupted
NextCorrupt ==
    \/ \E input_data \in IOInputs, generated \in Ids, pos \in 0..Len(dirOrder) :
          Create(input_data, generated, pos, NoFault)
    \/ \E entity_id \in Ids : Get(entity_id, NoFault)
    \/ \E filter_data \in CorruptFilters : List(filter_data, NoFault)
    \/ \E entity_id \in Ids, updates \in IOPatches : Update(entity_id, updates, NoFault)
    \/ \E entity_id \in Ids : Delete(entity_id, NoFault)
    \/ \E entity_id \in Ids : Exists(entity_id)
    \/ GetStats(NoFault)
    \/ \E entity_id \in Ids, how \in Damages : Corrupt(entity_id, how)
    \/ Return

SpecCorrupt == Init /\ [][NextCorrupt]_vars

(***************************************************************************)
(* _apply_filter on entities of any shape: the backend takes any entity    *)
(* type, so an entity may lack attributes MemoryData has.                  *)
(***************************************************************************)
\* the attributes the predicates of a filter look at
PredicateAttrs == {"tags", "source", "title", "content", "created_at"}

ShapeBases ==
    {[id |-> PyStr("a"), title |-> PyStr(ti), content |-> PyStr("Content 1"),
      source |-> PyStr("test"), tags |-> PyList(ta),
      created_at |-> get_current_timestamp(2), updated_at |-> get_current_timestamp(2)] :
        ti \in Titles, ta \in TagLists}

\* entities of the types that declare all but some of those attributes
EntityShapes ==
    {[f \in FieldSet \ D |-> base[f]] : base \in ShapeBases, D \in SUBSET PredicateAttrs}

\* the filters of one predicate, no pagination
OnePredicateFilters ==
    {MemoryFilter(PyNone, PyNone, PyStr(d), PyNone, PyNone, PyNone, PyNone) : d \in {DatePool[1], DatePool[3]}}
    \cup {MemoryFilter(PyNone, PyNone, PyNone, PyStr(d), PyNone, PyNone, PyNone) : d \in {DatePool[1], DatePool[3]}}
    \cup {MemoryFilter(PyNone, PyNone, PyNone, PyNone, PyList(ta), PyNone, PyNone) : ta \in {<<"x">>, <<"y">>}}
    \cup {MemoryFilter(PyNone, PyNone, PyNone, PyNone, PyNone, PyStr(w), PyNone) : w \in {"hello", "BYE", "memo"}}
    \cup {MemoryFilter(PyNone, PyNone, PyNone, PyNone, PyNone, PyNone, PyStr(so)) : so \in {"test", "claude-code"}}

\* self._apply_filter([entity], filter_data)
ApplyFilter(entity, filter_data) ==
    /\ call = Idle
    /\ call' = Call("_apply_filter", "", entity, filter_data, NoFault,
                    RetList(_apply_filter(<<entity>>, filter_data)))
    /\ UNCHANGED <<files, dirOrder, now, created, stored, nonStoreVars>>

NextApplyFilter ==
    \/ \E entity \in EntityShapes, filter_data \in OnePredicateFilters :
          ApplyFilter(entity, filter_data)
    \/ Return

SpecApplyFilter == Init /\ [][NextApplyFilter]_vars

(***************************************************************************)
(* The memories of the memry server, listed through MemoryFilters.         *)
(***************************************************************************)
\* memories that differ in title, source and tags
FilterInputs ==
    {InputWithId(id, "Hello", "Content 1", "test", <<"x">>) : id \in Ids}
    \cup {InputWithId(id, "Goodbye", "Content 1", "test", <<"y">>) : id \in Ids}
    \cup {InputWithId(id, "Hello", "Content 1", "claude-code", <<"x", "y">>) : id \in Ids}
    \cup {InputWithId(id, "Goodbye", "Content 1", "claude-code", <<>>) : id \in Ids}

TagFilters ==
    {MemoryFilter(PyNone, PyNone, PyNone, PyNone, PyList(ta), PyNone, PyNone) :
        ta \in {<<"x">>, <<"y">>, <<"x", "y">>, <<"z">>, <<"z", "y">>}}

ListFilters == {PyNone} \cup TagFilters \cup OnePredicateFilters

NextFilter ==
    \/ \E input_data \in FilterInputs, generated \in Ids, pos \in 0..Len(dirOrder) :
          Create(input_data, generated, pos, NoFault)
    \/ \E filter_data \in ListFilters : List(filter_data, NoFault)
    \/ \E entity_id \in Ids : Delete(entity_id, NoFault)
    \/ Return
    \/ Tick

SpecFilter == Init /\ [][NextFilter]_vars

\* filters that narrow by tags or by source, or by neither, and paginate
PagedFilters ==
    {MemoryFilter(l, o, PyNone, PyNone, ta, PyNone, so) :
        l \in PageValues, o \in PageValues,
        ta \in {PyNone, PyList(<<"x">>)}, so \in {PyNone, PyStr("test")}}

NextPage ==
    \/ \E input_data \in FilterInputs, generated \in Ids, pos \in 0..Len(dirOrder) :
          Create(input_data, generated, pos, NoFault)
    \/ \E filter_data \in PagedFilters : List(filter_data, NoFault)
    \/ Return

SpecPage == Init /\ [][NextPage]_vars

(***************************************************************************)
(* Updates of the timestamps.                                              *)
(***************************************************************************)
\* patches of the title, of updated_at and of created_at
StampPatches ==
    {[title |-> PyStr("Goodbye")]}
    \cup {[updated_at |-> get_current_timestamp(c)] : c \in Times}
    \cup {[created_at |-> get_current_timestamp(c)] : c \in Times}

NextStamp ==
    \/ \E input_data \in IOInputs, generated \in Ids, pos \in 0..Len(dirOrder) :
          Create(input_data, generated, pos, NoFault)
    \/ \E entity_id \in Ids, updates \in StampPatches : Update(entity_id, updates, NoFault)
    \/ \E entity_id \in Ids : Delete(entity_id, NoFault)
    \/ Return
    \/ Tick

SpecStamp == Init /\ [][NextStamp]_vars

(***************************************************************************)
(* update(id, patch) and delete(id) issued together by two users of the    *)
(* same directory that share no lock: each runs its file operations in     *)
(* order, and the operations of the two interleave in any way.             *)
(***************************************************************************)
\* entity_data of update: the stored entity overlaid with the patch, stamped
update_entity_data(entity, updates, clock) ==
    LET merged == DictUpdate(model_dump(entity), updates)
    IN IF "updated_at" \in DOMAIN merged
       THEN [merged EXCEPT !["updated_at"] = get_current_timestamp(clock)]
       ELSE merged

\* the two calls are issued on an id that has a file
BeginRace(entity_id, updates) ==
    /\ call = Idle
    /\ upd = NotRunning /\ del = NotRunning
    /\ JSONFileBackend_exists(files, entity_id)
    /\ upd' = UpdateTask("start", entity_id, updates, EmptyDict, FALSE, RetNone)
    /\ del' = DeleteTask("start", entity_id, RetNone, "none")
    /\ call' = Call("race", entity_id, updates, PyNone, NoFault, RetNone)
    /\ UNCHANGED <<files, dirOrder, now, created, stored, nonRaceStoreVars>>

\* update: self.get(entity_id), the merge and the validation; it returns None
\* when there is no entity or the merged map is rejected
UpdateRead ==
    LET got == JSONFileBackend_get(files, upd.id, now, NoFault)
        entity_data == update_entity_data(got.entity, upd.updates, now)
    IN /\ upd # NotRunning /\ upd.pc = "start"
       /\ upd' = IF got.kind = "entity" /\ MemoryDataOk(entity_data)
                 THEN [upd EXCEPT !.pc = "validated", !.data = entity_data]
                 ELSE [upd EXCEPT !.pc = "done", !.ret = RetNone]
       /\ UNCHANGED <<del, storeVars, nonRaceStoreVars>>

\* update: open(file_path, 'w') makes the file if there is none and empties it
UpdateOpen(pos) ==
    /\ upd # NotRunning /\ upd.pc = "validated"
    /\ files' = [files EXCEPT ![_get_file_path(upd.id)] = TruncatedFile]
    /\ IF JSONFileBackend_exists(files, upd.id)
       THEN dirOrder' = dirOrder /\ pos = 0
       ELSE dirOrder' = InsertAt(dirOrder, pos, _get_file_path(upd.id))
    /\ upd' = [upd EXCEPT !.pc = "opened", !.linked = TRUE]
    /\ UNCHANGED <<del, now, call, created, stored, nonRaceStoreVars>>

\* update: json.dump(entity_data, f, indent=2) and the close of the file; the
\* text goes to the file that was opened, which delete may have unlinked
UpdateWrite ==
    /\ upd # NotRunning /\ upd.pc = "opened"
    /\ files' = IF upd.linked
                THEN [files EXCEPT ![_get_file_path(upd.id)] = JsonFile(JsonDump(upd.data))]
                ELSE files
    /\ upd' = [upd EXCEPT !.pc = "done", !.ret = RetEntity(MemoryData(upd.data, now))]
    /\ stored' = IF upd.linked
                 THEN [stored EXCEPT ![upd.id] = RetEntity(MemoryData(upd.data, now))]
                 ELSE stored
    /\ UNCHANGED <<del, dirOrder, now, call, created, nonRaceStoreVars>>

\* delete: file_path.exists(); False is returned when there is no file
DeleteCheck ==
    /\ del # NotRunning /\ del.pc = "start"
    /\ del' = IF JSONFileBackend_exists(files, del.id)
              THEN [del EXCEPT !.pc = "checked"]
              ELSE [del EXCEPT !.pc = "done", !.ret = RetBool(FALSE)]
    /\ UNCHANGED <<upd, storeVars, nonRaceStoreVars>>

\* delete: file_path.unlink(); the FileNotFoundError of a file that went away
\* since the check is caught, and False returned
DeleteUnlink ==
    LET there == JSONFileBackend_exists(files, del.id)
        r == JSONFileBackend_delete(files, dirOrder, del.id, NoFault)
    IN /\ del # NotRunning /\ del.pc = "checked"
       /\ files' = r.files
       /\ dirOrder' = r.order
       /\ del' = [del EXCEPT !.pc = "done", !.ret = r.ret, !.upd_pc = upd.pc]
       /\ upd' = IF there /\ upd.pc = "opened" THEN [upd EXCEPT !.linked = FALSE] ELSE upd
       /\ stored' = IF there THEN [stored EXCEPT ![del.id] = RetNone] ELSE stored
       /\ UNCHANGED <<now, call, created, nonRaceStoreVars>>

\* both calls have returned
EndRace ==
    /\ upd # NotRunning /\ upd.pc = "done"
    /\ del # NotRunning /\ del.pc = "done"
    /\ upd' = NotRunning
    /\ del' = NotRunning
    /\ call' = Idle
    /\ UNCHANGED <<files, dirOrder, now, created, stored, nonRaceStoreVars>>

NextRace ==
    \/ \E input_data \in IOInputs, generated \in Ids, pos \in 0..Len(dirOrder) :
          Create(input_data, generated, pos, NoFault)
    \/ \E entity_id \in Ids, updates \in IOPatches : BeginRace(entity_id, updates)
    \/ UpdateRead
    \/ \E pos \in 0..Len(dirOrder) : UpdateOpen(pos)
    \/ UpdateWrite
    \/ DeleteCheck
    \/ DeleteUnlink
    \/ EndRace
    \/ Return
    \/ Tick

SpecRace == Init /\ [][NextRace]_vars

(***************************************************************************)
(* MemoryStorage of the memry server: memories kept as Markdown files      *)
(* named by date and slug.  File names are strings of characters.          *)
(***************************************************************************)
MaxDay == 2
MaxSecond == 2
MaxMemories == 3

\* the seconds of the day the clock shows: strftime("%H%M%S")
SecondPool == <<"090000", "090001", "090002", "090003">>

Letters == {"a", "b", "c", "d", "e", "f", "g", "h", "i", "j", "k", "l", "m",
            "n", "o", "p", "q", "r", "s", "t", "u", "v", "w", "x", "y", "z"}
Digits == {"0", "1", "2", "3", "4", "5", "6", "7", "8", "9"}
Whitespace == {" "}

\* re.sub(r"-+", "-", slug): a hyphen that follows a hyphen is dropped
RECURSIVE CollapseHyphens(_)
CollapseHyphens(cs) ==
    IF Len(cs) < 2 THEN cs
    ELSE IF cs[1] = "-" /\ cs[2] = "-" THEN CollapseHyphens(Tail(cs))
    ELSE <<cs[1]>> \o CollapseHyphens(Tail(cs))

\* str.strip("-")
RECURSIVE StripHyphens(_)
StripHyphens(cs) ==
    IF cs = <<>> THEN cs
    ELSE IF cs[1] = "-" THEN StripHyphens(Tail(cs))
    ELSE IF cs[Len(cs)] = "-" THEN StripHyphens(SubSeq(cs, 1, Len(cs) - 1))
    ELSE cs

\* MemoryStorage._slugify: lower case, the characters other than letters,
\* digits, whitespace and hyphens removed, each run of whitespace made one
\* hyphen, each run of hyphens made one hyphen, the hyphens at the ends removed
_slugify(text) ==
    LET kept == SelectSeq(Lower(text),
                          LAMBDA c : c \in Letters \cup Digits \cup Whitespace \cup {"-"})
        hyphened == [k \in 1..Len(kept) |-> IF kept[k] \in Whitespace THEN "-" ELSE kept[k]]
    IN StripHyphens(CollapseHyphens(hyphened))

\* MemoryStorage._generate_filename: f"{date}-{slug}.md"
_generate_filename(title, date, topic_slug) ==
    LET slug == IF Truthy(topic_slug) THEN _slugify(Chars(topic_slug.s))
                ELSE _slugify(Chars(title.s))
    IN Chars(date) \o <<"-">> \o slug \o Chars(".md")

\* filename.replace(".md", ""): every occurrence of ".md" is removed
RECURSIVE RemoveMd(_)
RemoveMd(cs) ==
    IF Len(cs) < 3 THEN cs
    ELSE IF SubSeq(cs, 1, 3) = Chars(".md") THEN RemoveMd(SubSeq(cs, 4, Len(cs)))
    ELSE <<cs[1]>> \o RemoveMd(Tail(cs))

\* the file create_memory writes: the front matter and the content
MemoryText(input_data, date) ==
    [title |-> input_data.title, date |-> date, source |-> input_data.source,
     tags |-> input_data.tags, content |-> input_data.content]

\* the file name create_memory writes to: the generated one, or, when a file
\* of that name exists, that name with the time of day added
create_memory_filename(fs, input_data, date, timestamp) ==
    LET filename == _generate_filename(input_data.title, date, input_data.topic_slug)
    IN IF filename \in DOMAIN fs
       THEN RemoveMd(filename) \o <<"-">> \o Chars(timestamp) \o Chars(".md")
       ELSE filename

\* open(file_path, "w") and f.write(content): the file is made or replaced
WriteFile(fs, filename, text) ==
    [f \in DOMAIN fs \cup {filename} |-> IF f = filename THEN text ELSE fs[f]]

\* the inputs: titles that differ, a title and a topic slug with one slug
MemoryInputs ==
    {[title |-> PyStr(ti), content |-> PyStr(co), source |-> PyStr("claude-code"),
      tags |-> PyList(<<"x">>), topic_slug |-> sl] :
        ti \in {"Hello", "Content 1"}, co \in {"Hello", "Goodbye"},
        sl \in {PyNone, PyStr("hello")}}

InitMemory ==
    /\ StoreUnused
    /\ ConversationUnused
    /\ ClientUnused
    /\ NoRace
    /\ NoMemories
    /\ NoTasks

\* storage.create_memory(input_data)
CreateMemory(input_data) ==
    LET date == DatePool[mem_now.day]
        filename == create_memory_filename(mem_files, input_data, date,
                                           SecondPool[mem_now.sec])
        text == MemoryText(input_data, date)
    IN /\ Len(mem_log) < MaxMemories
       /\ mem_files' = WriteFile(mem_files, filename, text)
       /\ mem_log' = Append(mem_log, [filename |-> filename, text |-> text])
       /\ UNCHANGED <<mem_now, nonMemVars>>

\* a second passes
NextSecond ==
    /\ mem_now.sec < MaxSecond
    /\ mem_now' = [mem_now EXCEPT !.sec = @ + 1]
    /\ UNCHANGED <<mem_files, mem_log, nonMemVars>>

\* midnight passes
NextDay ==
    /\ mem_now.day < MaxDay
    /\ mem_now' = [day |-> mem_now.day + 1, sec |-> 1]
    /\ UNCHANGED <<mem_files, mem_log, nonMemVars>>

NextMemory ==
    \/ \E input_data \in MemoryInputs : CreateMemory(input_data)
    \/ NextSecond
    \/ NextDay

SpecMemory == InitMemory /\ [][NextMemory]_vars

(***************************************************************************)
(* create calls issued together on one event loop.  The loop runs one      *)
(* task at a time, from where the task is to the next point at which its   *)
(* coroutine suspends, or to its end.                                      *)
(***************************************************************************)
MaxTasks == 3

\* mutant: the coroutine suspends between the check and the write, as it
\* would with an awaited file operation
create_suspends_before_write(point) ==
    point = "write"

\* whether the coroutine suspends at the point, "check" being the start of
\* create and "write" the place between its check and its write: create has
\* no await expression, so it runs from its first line to its return or its raise
create_suspends_at(point) ==
    FALSE

\* a task: the call storage.create(input_data), its position, its result
CreateTask(pc, input_data, entity, ret) ==
    [pc |-> pc, input_data |-> input_data, entity |-> entity, ret |-> ret]

\* the inputs of the tasks: the ids, under two titles
TaskInputs ==
    {InputWithId(id, ti, "Content 1", "test", <<"x">>) : id \in Ids, ti \in {"Hello", "Goodbye"}}

\* asyncio.create_task(storage.create(input_data)), or one more argument of
\* asyncio.gather
Spawn(input_data) ==
    /\ Len(tasks) < MaxTasks
    /\ tasks' = Append(tasks, CreateTask("check", input_data, EmptyDict, RetNone))
    /\ UNCHANGED nonLoopVars

\* the loop runs task t from where it is to the next point at which create
\* suspends, or to its end: from the start, the check and, unless the
\* coroutine suspends before it, the write; from the write, the write, which
\* is open(file_path, 'w') and json.dump
RunTask(t, generated, pos) ==
    LET task == tasks[t]
        r == EntityStorage_create(files, dirOrder, task.input_data, generated, now, pos,
                                  NoFault)
        entity == MemoryData(CreateEntityData(task.input_data, generated), now)
        file_path == _get_file_path(task.entity["id"].s)
    IN /\ task.pc # "done"
       /\ IF task.pc = "check" /\ (r.ret.kind # "entity" \/ ~create_suspends_at("write"))
          THEN /\ files' = r.files
               /\ dirOrder' = r.order
               /\ tasks' = [tasks EXCEPT
                              ![t] = CreateTask("done", task.input_data, EmptyDict, r.ret)]
          ELSE IF task.pc = "check"
          THEN /\ UNCHANGED <<files, dirOrder>>
               /\ tasks' = [tasks EXCEPT
                              ![t] = CreateTask("write", task.input_data, entity, RetNone)]
          ELSE /\ files' = [files EXCEPT
                              ![file_path] = JsonFile(JsonDump(model_dump(task.entity)))]
               /\ dirOrder' = IF JSONFileBackend_exists(files, task.entity["id"].s)
                              THEN dirOrder ELSE InsertAt(dirOrder, pos, file_path)
               /\ tasks' = [tasks EXCEPT
                              ![t] = CreateTask("done", task.input_data, EmptyDict,
                                                RetEntity(task.entity))]
       /\ UNCHANGED <<now, call, created, stored, nonStoreLoopVars>>

NextLoop ==
    \/ \E input_data \in TaskInputs : Spawn(input_data)
    \/ \E t \in 1..Len(tasks), generated \in Ids, pos \in 0..Len(dirOrder) :
          RunTask(t, generated, pos)

SpecLoop == Init /\ [][NextLoop]_vars

(***************************************************************************)
(* A conversation: one ConversationManager and the calls made on it.       *)
(***************************************************************************)
\* the max_messages given to the constructor, which takes any int
MaxMessagesValues == (0 - 1)..MaxMessages

Roles == {"user", "assistant"}
MessageContents == {"Message 1", "Response 1"}

\* ConversationManager(max_messages=n)
InitConversation ==
    /\ StoreUnused
    /\ ClientUnused
    /\ messages = <<>>
    /\ max_messages \in MaxMessagesValues
    /\ added = NothingAdded
    /\ NoRace
    /\ NoMemories
    /\ NoTasks

\* manager.add_message(role, content)
AddMessage(role, content) ==
    /\ messages' = add_message(messages, max_messages, role, content)
    /\ added' = [first |-> IF added = NothingAdded
                           THEN <<ClaudeMessage(role, content)>> ELSE added.first,
                 last |-> <<ClaudeMessage(role, content)>>]
    /\ UNCHANGED <<max_messages, nonConvVars>>

\* manager.clear()
Clear ==
    /\ messages' = <<>>
    /\ added' = NothingAdded
    /\ UNCHANGED <<max_messages, nonConvVars>>

NextConversation ==
    \/ \E role \in Roles, content \in MessageContents : AddMessage(role, content)
    \/ Clear

SpecConversation == InitConversation /\ [][NextConversation]_vars

(***************************************************************************)
(* A request: one ClaudeClient, built from a config, and one send_request. *)
(***************************************************************************)
MaxRetries == 2
\* ClaudeConfig.max_retries and ClaudeConfig.retry_delay: Optional[int]
ConfigMaxRetries == {PyNone} \cup {PyInt(n) : n \in (0 - 1)..MaxRetries}
ConfigRetryDelay == {PyNone, PyInt(10)}

\* the answers the API gives to a POST
Answers ==
    {HttpResponse(200, body, NoHeader) : body \in ResponseBodies \cup {MalformedBody}}
    \cup {HttpResponse(429, ErrorBody, h) : h \in RetryAfterValues}
    \cup {HttpResponse(400, ErrorBody, NoHeader), ConnectError}

InitClient ==
    /\ StoreUnused
    /\ ConversationUnused
    /\ \E m \in ConfigMaxRetries : max_retries = ClaudeClient_max_retries(m)
    /\ \E d \in ConfigRetryDelay : retry_delay = ClaudeClient_retry_delay(d)
    /\ attempt = 0
    /\ last_error = NoError
    /\ posts = <<>>
    /\ sleeps = <<>>
    /\ outcome = NotCalled
    /\ NoRace
    /\ NoMemories
    /\ NoTasks

\* await client.send_request(messages), up to its first POST; range() of a
\* number below one is empty, and the loop is skipped
SendRequest ==
    /\ outcome = NotCalled
    /\ outcome' = IF max_retries < 1 THEN send_request_raise(NoError) ELSE Running
    /\ UNCHANGED <<max_retries, retry_delay, attempt, last_error, posts, sleeps,
                   nonClientVars>>

\* one iteration of the loop: the POST is answered, and send_request runs up
\* to its next POST, its return or its raise
Attempt(answer) ==
    LET it == send_request_iteration(max_retries, retry_delay, attempt, answer)
        error == IF it.error = NoError THEN last_error ELSE it.error
    IN  /\ outcome = Running
        /\ attempt < max_retries
        /\ posts' = Append(posts, answer)
        /\ sleeps' = sleeps \o it.slept
        /\ last_error' = error
        /\ IF it.response # NoResponse
           THEN /\ outcome' = Returned(it.response)
                /\ attempt' = attempt
           ELSE IF attempt + 1 < max_retries
           THEN /\ outcome' = Running
                /\ attempt' = attempt + 1
           ELSE /\ outcome' = send_request_raise(error)
                /\ attempt' = attempt
        /\ UNCHANGED <<max_retries, retry_delay, nonClientVars>>

NextClient ==
    \/ SendRequest
    \/ \E answer \in Answers : Attempt(answer)

SpecClient == InitClient /\ [][NextClient]_vars

(***************************************************************************)
(* Helpers of the properties.                                              *)
(***************************************************************************)
\* get(id) on the current directory, the file system working
GetNow(id) == JSONFileBackend_get(files, id, now, NoFault)

\* the field map EntityStorage.create built the entity of call c from
CallEntityData(c) ==
    [k \in DOMAIN c.arg \cup {"id"} |-> IF k = "id" THEN PyStr(c.id) ELSE c.arg[k]]

\* every value of the patch fits the type of the field it names
PatchWellTyped(p) == \A f \in DOMAIN p : FieldTypeOk(f, p[f])

\* the ids created and not deleted since
Live == {id \in Ids : stored[id].kind = "entity"}

\* C1: round trip. An entity E returned by a successful create is what get(E.id)
\* returns right after it, equal in every persisted field; decoding the encoded
\* field map of E gives E back.
C1_RoundTrip ==
    (call.op = "create" /\ call.ret.kind = "entity") =>
        LET E == call.ret.entity
        IN /\ GetNow(E["id"].s) = RetEntity(E)
           /\ MemoryData(JsonLoad(JsonDump(model_dump(E))), now) = E

\* C1 witness: a create that generated the id and stored a tagged entity
C1_Witness ==
    /\ call.op = "create"
    /\ call.ret.kind = "entity"
    /\ "id" \notin DOMAIN call.arg
    /\ call.ret.entity["tags"].l # <<>>

\* C2: a create (through EntityStorage) of a valid entity whose id already has a
\* record fails with the duplicate-id error, and leaves the directory as it was:
\* one record for the id, holding what was stored before.
C2_DuplicateCreate ==
    [][(/\ call'.op = "create"
        /\ MemoryDataOk(CallEntityData(call'))
        /\ JSONFileBackend_exists(files, call'.id))
       => (/\ call'.ret = DuplicateIdError
           /\ files' = files
           /\ dirOrder' = dirOrder
           /\ Len(SelectSeq(dirOrder', LAMBDA stem : stem = call'.id)) = 1
           /\ JSONFileBackend_get(files', call'.id, now', NoFault) = stored[call'.id])]_vars

\* C2 witness: a second create of an id, with another title, has failed
C2_Witness ==
    /\ call.op = "create"
    /\ call.ret = DuplicateIdError
    /\ stored[call.id].kind = "entity"
    /\ stored[call.id].entity["title"] # call.arg["title"]

\* C3: for an id no create has succeeded for, get returns None and delete
\* returns False, as results and not as errors.
C3_NeverCreated ==
    /\ \A id \in Ids \ created :
          /\ GetNow(id) = RetNone
          /\ JSONFileBackend_delete(files, dirOrder, id, NoFault).ret = RetBool(FALSE)
    /\ (call.op = "get" /\ call.id \notin created) => call.ret = RetNone
    /\ (call.op = "delete" /\ call.id \notin created) => call.ret = RetBool(FALSE)

\* C3 witness: delete of a never created id, while another id is stored
C3_Witness ==
    /\ call.op = "delete"
    /\ call.id \notin created
    /\ Live # {}

\* C4: delete of an id that has a record returns True; after it get gives None
\* and a second delete gives False.
C4_DeleteExisting ==
    [][(call'.op = "delete" /\ JSONFileBackend_exists(files, call'.id))
       => (/\ call'.ret = RetBool(TRUE)
           /\ JSONFileBackend_get(files', call'.id, now', NoFault) = RetNone
           /\ JSONFileBackend_delete(files', dirOrder', call'.id, NoFault).ret = RetBool(FALSE))]_vars

\* C4 witness: a delete has removed a record while another one stays
C4_Witness ==
    /\ call.op = "delete"
    /\ call.ret = RetBool(TRUE)
    /\ Live # {}

\* C5 as claimed: update of an existing entity with a patch of well typed values
\* returns an entity in which every field the patch names has the patch's value,
\* and get(id) then returns what update returned.
C5_PatchApplied ==
    [][(/\ call'.op = "update"
        /\ GetNow(call'.id).kind = "entity"
        /\ PatchWellTyped(call'.arg))
       => (/\ call'.ret.kind = "entity"
           /\ \A f \in DOMAIN call'.arg : call'.ret.entity[f] = call'.arg[f]
           /\ JSONFileBackend_get(files', call'.id, now', NoFault) = call'.ret)]_vars

\* C5 amended: the same for every field the patch names other than updated_at;
\* updated_at is the time of the update, whatever the patch says.
C5_PatchAppliedButUpdatedAt ==
    [][(/\ call'.op = "update"
        /\ GetNow(call'.id).kind = "entity"
        /\ PatchWellTyped(call'.arg))
       => (/\ call'.ret.kind = "entity"
           /\ \A f \in DOMAIN call'.arg \ {"updated_at"} : call'.ret.entity[f] = call'.arg[f]
           /\ call'.ret.entity["updated_at"] = get_current_timestamp(now)
           /\ JSONFileBackend_get(files', call'.id, now', NoFault) = call'.ret)]_vars

\* C5 witness: an update whose patch named updated_at returned another value
C5_Witness ==
    /\ call.op = "update"
    /\ call.ret.kind = "entity"
    /\ "updated_at" \in DOMAIN call.arg
    /\ call.ret.entity["updated_at"] # call.arg["updated_at"]

\* C6 as claimed: update leaves every field the patch does not name as it was,
\* in the entity it returns and in the one get(id) reads back.
C6_Frame ==
    [][(/\ call'.op = "update"
        /\ GetNow(call'.id).kind = "entity"
        /\ call'.ret.kind = "entity")
       => \A f \in FieldSet \ DOMAIN call'.arg :
             /\ call'.ret.entity[f] = GetNow(call'.id).entity[f]
             /\ JSONFileBackend_get(files', call'.id, now', NoFault).entity[f]
                    = GetNow(call'.id).entity[f]]_vars

\* C6 amended: the same for every unnamed field other than updated_at.
C6_FrameButUpdatedAt ==
    [][(/\ call'.op = "update"
        /\ GetNow(call'.id).kind = "entity"
        /\ call'.ret.kind = "entity")
       => \A f \in FieldSet \ (DOMAIN call'.arg \cup {"updated_at"}) :
             /\ call'.ret.entity[f] = GetNow(call'.id).entity[f]
             /\ JSONFileBackend_get(files', call'.id, now', NoFault).entity[f]
                    = GetNow(call'.id).entity[f]]_vars

\* C6 witness: an update of the title alone, made later than the creation
C6_Witness ==
    /\ call.op = "update"
    /\ call.ret.kind = "entity"
    /\ DOMAIN call.arg = {"title"}
    /\ call.ret.entity["updated_at"] # call.ret.entity["created_at"]

\* C7: list() without a filter returns one entity for each id created and not
\* deleted since, the one last stored for it, and nothing else.
C7_ListAll ==
    LET L == JSONFileBackend_list(files, dirOrder, PyNone, now, NoFault).list
    IN /\ Len(L) = Cardinality(Live)
       /\ \E p \in [1..Len(L) -> Live] :
             /\ \A k, m \in 1..Len(L) : p[k] = p[m] => k = m
             /\ \A k \in 1..Len(L) : RetEntity(L[k]) = stored[p[k]]
       /\ (call.op = "list" /\ call.filter = PyNone) => call.ret = RetList(L)

\* C7 witness: a list() of one entity after two were created and one deleted
C7_Witness ==
    /\ call.op = "list"
    /\ call.filter = PyNone
    /\ Len(call.ret.list) = 1
    /\ Cardinality(created) = 2

\* C8: pagination is a pure slice. For every offset o >= 0 and limit l >= 0,
\* list(filter{offset: o, limit: l}) is list()[o : o + l].
C8_PureSlice ==
    LET full == JSONFileBackend_list(files, dirOrder, PyNone, now, NoFault).list
    IN \A o \in 0..MaxPage, l \in 0..MaxPage :
          JSONFileBackend_list(files, dirOrder, EntityFilter(PyInt(l), PyInt(o)), now, NoFault).list
             = SubSeq(full, o + 1, IF o + l < Len(full) THEN o + l ELSE Len(full))

\* C9: the record kept under id X has X in its id field, and get(X), when it
\* returns an entity, returns one whose id is X.
C9_IdImmutable ==
    \A id \in Ids :
       /\ files[id].st = "json" => JsonLoad(files[id].text)["id"] = PyStr(id)
       /\ GetNow(id).kind = "entity" => GetNow(id).entity["id"] = PyStr(id)

ListNow == JSONFileBackend_list(files, dirOrder, PyNone, now, NoFault)

\* C11: with records corrupted (not JSON, or JSON the entity type rejects), an
\* unfiltered list() returns a list, never raises, holding exactly the entities
\* of the records that are stored and not corrupted, and leaves every file as
\* it was.
C11_CorruptSkipped ==
    [][call'.op = "list" /\ call'.filter.t = "NoneType" =>
          /\ call'.ret.kind = "list"
          /\ {call'.ret.list[k] : k \in 1..Len(call'.ret.list)}
                = {stored[id].entity : id \in Live}
          /\ Len(call'.ret.list) = Cardinality(Live)
          /\ files' = files
          /\ dirOrder' = dirOrder]_vars

\* a listing that left out a corrupted record and kept a valid one
C11_Witness ==
    /\ call.op = "list"
    /\ call.filter.t = "NoneType"
    /\ \E id \in Ids : stored[id] = Corrupted /\ files[id].st = "truncated"
    /\ \E id \in Ids : stored[id].kind = "entity"
    /\ Len(call.ret.list) = 1

\* C12: get(id) returns None, and raises nothing, when id has no record and
\* when its record is not JSON or is JSON the entity type rejects.
C12_GetAbsentOrMalformed ==
    call.op = "get" /\ stored[call.id].kind # "entity" => call.ret = RetNone

\* a get of a record that is JSON but fails entity reconstruction
C12_Witness ==
    /\ call.op = "get"
    /\ stored[call.id] = Corrupted
    /\ files[call.id].st = "json"
    /\ call.ret = RetNone

\* C13: update(id, patch) of an id that has no file returns None and changes
\* nothing: no file appears for id and list() is what it was.
C13_UpdateMissing ==
    [][call'.op = "update" /\ ~JSONFileBackend_exists(files, call'.id) =>
          /\ call'.ret = RetNone
          /\ files' = files
          /\ dirOrder' = dirOrder
          /\ ~JSONFileBackend_exists(files', call'.id)
          /\ JSONFileBackend_list(files', dirOrder', PyNone, now', NoFault)
                = JSONFileBackend_list(files, dirOrder, PyNone, now, NoFault)]_vars

\* an update with a non-empty patch of an id without a record, next to a
\* stored one
C13_Witness ==
    /\ call.op = "update"
    /\ DOMAIN call.arg # {}
    /\ ~JSONFileBackend_exists(files, call.id)
    /\ call.ret = RetNone
    /\ Len(dirOrder) = 1

\* the entity attributes a predicate of a filter looks at
TargetAttrs(predicate) ==
    CASE predicate \in {"date_from", "date_to"} -> {"created_at"}
      [] predicate = "tags" -> {"tags"}
      [] predicate = "content_search" -> {"title", "content"}
      [] predicate = "source" -> {"source"}

\* the entity has none of the attributes the predicate looks at
LacksTarget(entity, predicate) ==
    \A a \in TargetAttrs(predicate) : ~hasattr(entity, a)

\* C14: an entity that lacks the attribute a predicate of the filter targets
\* passes the filter of that one predicate: it is kept in the result.
C14_AbsentAttributePasses ==
    call.op = "_apply_filter" =>
       \A predicate \in {"date_from", "date_to", "tags", "content_search", "source"} :
          FilterHas(call.filter, predicate) /\ LacksTarget(call.arg, predicate)
             => call.ret.list = <<call.arg>>

\* the filter has the tags predicate and nothing else: no other predicate, no
\* pagination
OnlyTags(filter_data) ==
    /\ FilterHas(filter_data, "tags")
    /\ \A attr \in {"date_from", "date_to", "content_search", "source", "limit", "offset"} :
          ~FilterHas(filter_data, attr)

\* the elements of a Python list of strings
Elems(l) == {l[i] : i \in 1..Len(l)}

\* C15: list(filter{tags: T}), T non-empty, returns exactly the stored entities
\* whose tags and T have a tag in common, each once.
C15_TagsAny ==
    call.op = "list" /\ OnlyTags(call.filter) =>
       LET T == Elems(call.filter.tags.l)
           matching == {id \in Live : Elems(stored[id].entity["tags"].l) \cap T # {}}
       IN /\ Elems(call.ret.list) = {stored[id].entity : id \in matching}
          /\ Len(call.ret.list) = Cardinality(matching)

\* two tags are asked for; the listing keeps an entity that has only one of
\* them and drops an entity that has neither
C15_Witness ==
    /\ call.op = "list"
    /\ OnlyTags(call.filter)
    /\ call.filter.tags.l = <<"z", "y">>
    /\ Len(call.ret.list) = 1
    /\ call.ret.list[1]["tags"].l = <<"x", "y">>
    /\ Cardinality(Live) = 2

\* C16: create keeps the id of an input whose id field is present and truthy,
\* without calling the id generator; for an input whose id field is missing or
\* falsy it calls the generator once and the created entity has the generated
\* id; either way the entity is what the file "<id>.json" of that id holds.
C16_IdAssignment ==
    call.op = "create" =>
       LET given == "id" \in DOMAIN call.arg /\ Truthy(call.arg["id"])
       IN /\ given => call.gen = <<>>
          /\ ~given => Len(call.gen) = 1
          /\ call.ret.kind = "entity" =>
                /\ given => call.ret.entity["id"] = call.arg["id"]
                /\ ~given => call.ret.entity["id"] = PyStr(call.gen[1])
                /\ call.ret.entity["id"].s \in Ids
                /\ GetNow(call.ret.entity["id"].s) = call.ret

\* a create whose input has the empty string for its id, next to a record
\* created under the id its input gave
C16_Witness ==
    /\ call.op = "create"
    /\ "id" \in DOMAIN call.arg
    /\ call.arg["id"] = PyStr("")
    /\ call.ret.kind = "entity"
    /\ call.gen = <<"b">>
    /\ files["b"].st = "json"
    /\ files["a"].st = "json"

\* C17: list (filtered or not), get, exists and get_stats leave the directory
\* as it was: the same files, each with the same content.
C17_ReadsChangeNothing ==
    [][call'.op \in {"list", "get", "exists", "get_stats"} =>
          files' = files /\ dirOrder' = dirOrder]_vars

\* a read of a store that holds a valid record and a corrupted one
C17_Witness ==
    /\ call.op \in {"list", "get", "exists", "get_stats"}
    /\ call.op = "get" => ~Loadable(files, call.id) /\ JSONFileBackend_exists(files, call.id)
    /\ call.op = "list" => call.filter.t = "MemoryFilter"
    /\ \E id \in Ids : stored[id] = Corrupted
    /\ \E id \in Ids : stored[id].kind = "entity"

\* the ids of the entities a listing holds
ListedIds(ret) == {ret.list[k]["id"] : k \in 1..Len(ret.list)}

\* C18: when delete(id) returns True, exists(id) is false and no entity of
\* list() has that id; and a create with an id that was created and deleted
\* before succeeds, after which get(id) returns the new entity, with the data
\* of the new input.
C18_NoTombstone ==
    [][/\ call'.op = "delete" /\ call'.ret = RetBool(TRUE) =>
             /\ ~JSONFileBackend_exists(files', call'.id)
             /\ PyStr(call'.id) \notin
                   ListedIds(JSONFileBackend_list(files', dirOrder', PyNone, now', NoFault))
       /\ /\ call'.op = "create"
          /\ call'.id \in created
          /\ stored[call'.id] = RetNone
          /\ MemoryDataOk(CallEntityData(call'))
          => /\ call'.ret.kind = "entity"
             /\ JSONFileBackend_get(files', call'.id, now', NoFault) = call'.ret
             /\ \A f \in (FieldSet \cap DOMAIN call'.arg) \ {"id"} :
                   call'.ret.entity[f] = call'.arg[f]]_vars

\* C19: get_stats() gives, as total_entities, the length of the unfiltered
\* list() of the same directory, with the name of the entity type and the name
\* of the backend class.
C19_StatsCountList ==
    call.op = "get_stats" =>
       /\ call.ret.kind = "stats"
       /\ call.ret.stats.total_entities = Len(ListNow.list)
       /\ call.ret.stats.entity_type = "MemoryData"
       /\ call.ret.stats.storage_backend = "JSONFileBackend"

\* statistics of a directory of two files, one of which does not load
C19_Witness ==
    /\ call.op = "get_stats"
    /\ Len(dirOrder) = 2
    /\ call.ret.stats.total_entities = 1

\* C20: whatever max_messages the manager was built with, once add_message
\* has put messages in the conversation get_message_count() is at most
\* max_messages.
C20_MessageLimit ==
    messages # <<>> => get_message_count(messages) <= max_messages


(***************************************************************************)
(* Properties of ClaudeClient.send_request.                                *)
(***************************************************************************)
\* the POST was answered 200 with a body ClaudeResponse accepts
Succeeds(answer) ==
    answer.kind = "response" /\ answer.status_code = 200 /\ answer.body \in ResponseBodies

\* the exception a failed attempt leaves in last_error
ErrorOf(answer) ==
    send_request_iteration(1, 0, 0, answer).error

\* the number of iterations of range(max_retries)
LoopLength ==
    IF max_retries < 0 THEN 0 ELSE max_retries

\* C21 (as stated): send_request issues at most max_retries POSTs, returns the
\* response of the first attempt answered 200 and issues no attempt after it,
\* sleeps between consecutive attempts, and raises the last error when all
\* attempts fail.
C21_RetryUntil200 ==
    /\ Len(posts) <= LoopLength
    /\ \A i \in 1..Len(posts) :
         (posts[i].kind = "response" /\ posts[i].status_code = 200)
         => /\ i = Len(posts)
            /\ outcome = Returned(posts[i].body)
    /\ outcome.kind = "running" => Len(sleeps) = Len(posts)
    /\ (outcome.kind \in {"returned", "raised"} /\ posts # <<>>) =>
         Len(sleeps) = Len(posts) - 1
    /\ (outcome.kind = "raised" /\ posts # <<>>) =>
         outcome.error = ErrorOf(posts[Len(posts)])

\* C21 (amended): send_request issues at most max_retries POSTs (none when
\* max_retries is negative: it then raises a generic error); it returns the
\* response of the first attempt answered 200 with a body that ClaudeResponse
\* accepts and issues no attempt after it, a 200 with any other body being a
\* failed attempt like an error status; it sleeps once between consecutive
\* attempts; and when all max_retries attempts fail it raises the error of the
\* last one.
C21_RetryUntilParsed200 ==
    /\ Len(posts) <= LoopLength
    /\ \A i \in 1..Len(posts) :
         Succeeds(posts[i]) => i = Len(posts) /\ outcome = Returned(posts[i].body)
    /\ outcome.kind = "running" => Len(sleeps) = Len(posts)
    /\ outcome.kind = "returned" =>
         /\ posts # <<>> /\ Succeeds(posts[Len(posts)])
         /\ Len(sleeps) = Len(posts) - 1
    /\ outcome.kind = "raised" =>
         /\ Len(posts) = LoopLength
         /\ IF posts = <<>>
            THEN sleeps = <<>> /\ outcome.error = "Failed to communicate with Claude API"
            ELSE Len(sleeps) = Len(posts) - 1
                 /\ outcome.error = ErrorOf(posts[Len(posts)])

\* a 429 with retry-after 1, then a 200: two POSTs, one sleep of a second
C21_Witness ==
    /\ max_retries = 2
    /\ posts = <<HttpResponse(429, ErrorBody, "1"), HttpResponse(200, "msg_1", NoHeader)>>
    /\ sleeps = <<1000>>
    /\ outcome = Returned("msg_1")

\* the entity satisfies the predicates of the filter: it has one of the tags
\* asked for, and the source asked for
SatisfiesPredicates(entity, filter_data) ==
    /\ filter_data.tags # PyNone =>
          Elems(entity["tags"].l) \cap Elems(filter_data.tags.l) # {}
    /\ filter_data.source # PyNone => entity["source"] = filter_data.source

\* seq[o : o + l], with None for an offset or a limit that is not given
PySlice(seq, o, l) ==
    LET from == IF o = PyNone THEN 0 ELSE o.n
        upto == IF l = PyNone \/ from + l.n > Len(seq) THEN Len(seq) ELSE from + l.n
    IN SubSeq(seq, from + 1, upto)

\* C22: pagination comes after all predicate narrowing, offset before limit:
\* list(filter) with predicates P, offset o and limit l is the unfiltered
\* listing restricted to the entities satisfying P, in listing order, [o : o + l].
C22_PaginateAfterPredicates ==
    (call.op = "list" /\ call.filter \in PagedFilters
        /\ (call.filter.tags # PyNone \/ call.filter.source # PyNone)) =>
        call.ret.list
          = PySlice(SelectSeq(ListNow.list,
                              LAMBDA e : SatisfiesPredicates(e, call.filter)),
                    call.filter.offset, call.filter.limit)

\* the number of files in the directory
FileCount(fs) == Cardinality({stem \in Ids : fs[stem] # NoFile})

\* C23: create, update and delete, whether they succeed or fail, leave the
\* file of every id but their target as it was; a successful create adds one
\* file, that of the id of the entity it returns, holding that entity, and the
\* entity has the value the input gave for every field of the entity type.
C23_OnlyTarget ==
    [][call'.op \in {"create", "update", "delete"} =>
          /\ \A id \in Ids \ {call'.id} : files'[id] = files[id]
          /\ (call'.op = "create" /\ call'.ret.kind = "entity") =>
                LET E == call'.ret.entity
                IN /\ E["id"].s = call'.id
                   /\ files[call'.id] = NoFile
                   /\ files'[call'.id] = JsonFile(JsonDump(model_dump(E)))
                   /\ FileCount(files') = FileCount(files) + 1
                   /\ \A f \in FieldSet \cap DOMAIN call'.arg :
                         (f # "id" \/ Truthy(call'.arg[f])) => E[f] = call'.arg[f]
    ]_vars

\* a second entity was created, and an update and a delete of it were made,
\* one failing, while the first stayed stored
C23_Witness ==
    /\ call.op = "update"
    /\ call.id = "b"
    /\ call.ret = RetNone
    /\ files["a"] # NoFile
    /\ files["b"] # NoFile

\* a <= b of two clock readings in ISO format: they compare in time order
TimeLeq(a, b) ==
    LET rank(x) == CHOOSE i \in 1..Len(TimePool) : TimePool[i] = x
    IN rank(a) <= rank(b)

\* C24: a successful update stamps updated_at with the current time, in the
\* entity it returns and in the record, also when the patch gives an
\* updated_at; the new updated_at is not before the one the record had; and
\* created_at changes only when the patch names it.
C24_Restamp ==
    [][(call'.op = "update" /\ call'.ret.kind = "entity") =>
          LET before == GetNow(call'.id).entity
              after == call'.ret.entity
          IN /\ after["updated_at"] = get_current_timestamp(now)
             /\ JsonLoad(files'[call'.id].text)["updated_at"].s = TimePool[now]
             /\ TimeLeq(before["updated_at"].s, after["updated_at"].s)
             /\ "created_at" \notin DOMAIN call'.arg =>
                   after["created_at"] = before["created_at"]
             /\ "created_at" \in DOMAIN call'.arg =>
                   after["created_at"] = call'.arg["created_at"]
    ]_vars

\* at the second clock reading, a patch that gives the first reading as
\* updated_at is applied: the entity returned has the second
C24_Witness ==
    /\ call.op = "update"
    /\ call.ret.kind = "entity"
    /\ now = 2
    /\ call.arg = [updated_at |-> get_current_timestamp(1)]
    /\ call.ret.entity["updated_at"] = get_current_timestamp(2)
    /\ call.ret.entity["created_at"] = get_current_timestamp(1)

\* C25: when update(id, patch) and delete(id) on an existing id interleave,
\* the last write wins: once both have returned the record is absent if the
\* unlink came last, and holds the merged data if the overwrite of update came
\* last; and no file ever holds a partially written record.
C25_LastWriteWins ==
    /\ \A id \in Ids : files[id] # TruncatedFile
    /\ (upd # NotRunning /\ upd.pc = "done" /\ del.pc = "done") =>
          LET overwrote == upd.ret.kind = "entity"
              unlinked == del.ret = RetBool(TRUE)
              unlinkLast == unlinked /\ (~overwrote \/ del.upd_pc = "done")
              overwriteLast == overwrote /\ ~unlinkLast
          IN /\ unlinkLast => files[upd.id] = NoFile
             /\ overwriteLast =>
                   files[upd.id] = JsonFile(JsonDump(model_dump(upd.ret.entity)))

\* C26: after any sequence of add_message calls, at least one, the first
\* message added since the last clear is at index 0 of get_messages() and the
\* message added last is its last element.
C26_TrimsMiddle ==
    added # NothingAdded =>
        /\ messages # <<>>
        /\ messages[1] = added.first[1]
        /\ messages[Len(messages)] = added.last[1]

\* C27: create_memory never overwrites: each call returns a file name that no
\* earlier call returned, and the file of every earlier call is still there
\* with the text that call wrote.
C27_NeverOverwrites ==
    /\ \A i, j \in 1..Len(mem_log) : i # j => mem_log[i].filename # mem_log[j].filename
    /\ \A i \in 1..Len(mem_log) :
          /\ mem_log[i].filename \in DOMAIN mem_files
          /\ mem_files[mem_log[i].filename] = mem_log[i].text

Finished(id) ==
    {t \in 1..Len(tasks) : tasks[t].pc = "done" /\ tasks[t].input_data["id"].s = id}

\* C29: of the create calls of one id run by the event loop, in whatever order
\* it runs them, exactly one succeeds, every other one fails with the
\* duplicate error, and the record stored is the one of the call that succeeded.
C29_OneCreateWins ==
    \A id \in Ids :
       Finished(id) # {} =>
          /\ Cardinality({t \in Finished(id) : tasks[t].ret.kind = "entity"}) = 1
          /\ \A t \in Finished(id) :
                IF tasks[t].ret.kind = "entity"
                THEN files[id] = JsonFile(JsonDump(model_dump(tasks[t].ret.entity)))
                ELSE tasks[t].ret = DuplicateIdError

\* three creates of one id were issued; the loop ran the last one first, and
\* it is the one that succeeded
C29_Witness ==
    /\ Len(tasks) = 3
    /\ \A t \in 1..3 : tasks[t].pc = "done" /\ tasks[t].input_data["id"].s = "a"
    /\ tasks[1].ret = DuplicateIdError
    /\ tasks[2].ret = DuplicateIdError
    /\ tasks[3].ret.kind = "entity"

\* exists(id) on the current directory
ExistsNow(id) == JSONFileBackend_exists(files, id)

\* a create of a valid entity of the id, made now, fails as a duplicate
CreateWouldBeDuplicate(id) ==
    EntityStorage_create(files, dirOrder, InputWithId(id, "Hello", "Content 1", "test", <<>>),
                         id, now, 0, NoFault).ret = DuplicateIdError

\* C30 (as stated): in every state and for every id, exists(id) is true exactly
\* when get(id) returns an entity, and exactly when a create of the id would
\* fail as a duplicate.
C30_ExistsIffGet ==
    \A id \in Ids :
       /\ ExistsNow(id) <=> GetNow(id).kind = "entity"
       /\ ExistsNow(id) <=> CreateWouldBeDuplicate(id)

\* C30 (amended): exists(id) is true exactly when a create of the id would
\* fail as a duplicate; get(id) returns an entity only when exists(id) is
\* true; and when exists(id) is true get(id) returns an entity unless the
\* file of the id does not load, in which case it returns None.  The exists
\* call itself returns what the directory shows.
C30_ExistsIffDuplicate ==
    /\ \A id \in Ids :
          /\ ExistsNow(id) <=> CreateWouldBeDuplicate(id)
          /\ GetNow(id).kind = "entity" => ExistsNow(id)
          /\ ExistsNow(id) =>
                IF Loadable(files, id) THEN GetNow(id).kind = "entity"
                ELSE GetNow(id) = RetNone
    /\ call.op = "exists" => call.ret = RetBool(ExistsNow(call.id))

\* exists has returned True for an id whose file a failed write left
\* truncated, so that get returns None for it
C30_Witness ==
    /\ call.op = "exists"
    /\ call.ret = RetBool(TRUE)
    /\ files[call.id] = TruncatedFile
    /\ GetNow(call.id) = RetNone
    /\ CreateWouldBeDuplicate(call.id)
====
